---- MODULE Spec2Model ----
(***************************************************************************)
(* The AArch64 instruction printer of reil (src/reil/aarch64/printer.cpp). *)
(*                                                                         *)
(* The printer is a set of functions that append text to a std::ostream.   *)
(* The stream carries, besides its text, the basefield format flag that    *)
(* std::hex and std::dec set and that stays set until it is set again.     *)
(* A stream is modelled as a record [text, basefield, status, calls]; every *)
(* printing function takes a stream and returns the stream after it.       *)
(* calls lists the family handlers the call on the stream has entered.     *)
(*                                                                         *)
(* A 64-bit unsigned value is the set of the positions of its one bits.    *)
(***************************************************************************)
EXTENDS Integers, Sequences, FiniteSets, TLC

VARIABLES
    basefield,  \* the sink's basefield flag: "dec" or "hex"
    fmt0,       \* the sink's basefield flag when the last call started
    insn,       \* the Instruction given to the last call (NoInsn before any)
    text,       \* the text the last call appended to the sink
    status,     \* how the last call ended: "ok", "abort", "bad_variant_access"
    handlers,   \* the family handlers the last call entered, in order
    again,      \* the last call printed the Instruction of the call before it
    prevText,   \* the text that earlier call appended (when again)
    nprints,    \* number of calls made on the sink
    shiftUB     \* what this build makes of an int shifted by 32 or more

vars == <<basefield, fmt0, insn, text, status, handlers, again, prevText, nprints, shiftUB>>

\* Number of print calls made on one sink before it is replaced.
MaxPrints == 2

-----------------------------------------------------------------------------
(* 64-bit unsigned arithmetic on sets of bit positions *)

Word == 0..63

Max(S) == CHOOSE x \in S : \A y \in S : y <= x
Min(S) == CHOOSE x \in S : \A y \in S : x <= y

RECURSIVE Pow2(_)
Pow2(n) == IF n = 0 THEN 1 ELSE 2 * Pow2(n - 1)

RECURSIVE BitsFrom(_, _)
BitsFrom(n, i) ==
    IF n = 0 THEN {}
    ELSE (IF n % 2 = 1 THEN {i} ELSE {}) \cup BitsFrom(n \div 2, i + 1)

\* The uint64_t holding the small natural n (n < 2^31).
U64(n) == BitsFrom(n, 0)

\* A uint64_t below 2^30, whose arithmetic can be done on naturals.
Small(v) == \A b \in v : b < 30

RECURSIVE Val(_)
\* The natural a uint64_t holds, for one below 2^31.
Val(v) == IF v = {} THEN 0 ELSE LET m == CHOOSE b \in v : TRUE IN Pow2(m) + Val(v \ {m})

Not64(v) == Word \ v
And64(v, w) == v \cap w
Shl64(v, k) == {b + k : b \in v} \cap Word
Inc64(v) ==
    LET z == Word \ v
    IN  IF z = {} THEN {}
        ELSE LET m == Min(z) IN {b \in v : b > m} \cup {m}

-----------------------------------------------------------------------------
(* The std::ostream: text, basefield, and whether the call is still running *)

NewStream(base) == [text |-> "", basefield |-> base, status |-> "ok", calls |-> <<>>]

\* stream << "literal"; nothing is written once the call has aborted or thrown.
Put(s, str) == IF s.status = "ok" THEN [s EXCEPT !.text = @ \o str] ELSE s

\* stream << std::hex, stream << std::dec
SetBase(s, base) == IF s.status = "ok" THEN [s EXCEPT !.basefield = base] ELSE s

\* abort(), and absl::get<T> on an operand that holds another alternative
Abort(s) == IF s.status = "ok" THEN [s EXCEPT !.status = "abort"] ELSE s
Throw(s) == IF s.status = "ok" THEN [s EXCEPT !.status = "bad_variant_access"] ELSE s

\* control passes to a family handler
Enter(s, handler) == IF s.status = "ok" THEN [s EXCEPT !.calls = Append(@, handler)] ELSE s

Digit(d) == SubSeq("0123456789abcdef", d + 1, d + 1)

RECURSIVE NatStr(_, _)
NatStr(n, radix) ==
    IF n < radix THEN Digit(n)
    ELSE NatStr(n \div radix, radix) \o Digit(n % radix)

Bit(v, b) == IF b \in v THEN 1 ELSE 0

\* the i-th hexadecimal digit of v, counted from the least significant
Nibble(v, i) ==
    Bit(v, 4 * i) + 2 * Bit(v, 4 * i + 1) + 4 * Bit(v, 4 * i + 2) + 8 * Bit(v, 4 * i + 3)

RECURSIVE HexFrom(_, _)
HexFrom(v, i) == IF i < 0 THEN "" ELSE Digit(Nibble(v, i)) \o HexFrom(v, i - 1)

RECURSIVE TopNibble(_, _)
\* the most significant nonzero hexadecimal digit at or below i (0 if none)
TopNibble(v, i) == IF i = 0 \/ Nibble(v, i) # 0 THEN i ELSE TopNibble(v, i - 1)

\* no leading zeros, lower case, no base prefix
HexStr(v) == HexFrom(v, TopNibble(v, 15))

RECURSIVE DoubleAdd(_, _)
\* 2 * ds + c on a little-endian sequence of decimal digits
DoubleAdd(ds, c) ==
    IF ds = <<>> THEN (IF c = 0 THEN <<>> ELSE <<c>>)
    ELSE LET t == 2 * Head(ds) + c
         IN  <<t % 10>> \o DoubleAdd(Tail(ds), t \div 10)

RECURSIVE DecDigits(_, _)
\* the decimal digits of v >> i, little-endian
DecDigits(v, i) ==
    IF i > 63 THEN <<>>
    ELSE DoubleAdd(DecDigits(v, i + 1), Bit(v, i))

RECURSIVE DigitsStr(_)
DigitsStr(ds) == IF ds = <<>> THEN "" ELSE DigitsStr(Tail(ds)) \o Digit(Head(ds))

DecStr(v) ==
    IF v = {} THEN "0"
    ELSE IF Small(v) THEN NatStr(Val(v), 10)
    ELSE DigitsStr(DecDigits(v, 0))

\* stream << (unsigned) n : written in the stream's current base
PutNat(s, n) == Put(s, NatStr(n, IF s.basefield = "hex" THEN 16 ELSE 10))

\* stream << (uint64_t) v : written in the stream's current base
PutU64(s, v) == Put(s, IF s.basefield = "hex" THEN HexStr(v) ELSE DecStr(v))

\* The characters 0x20..0x5f and 0x61..0x7e.
AsciiLow == " !\"#$%&'()*+,-./0123456789:;<=>?@ABCDEFGHIJKLMNOPQRSTUVWXYZ[\\]^_"
AsciiHigh == "abcdefghijklmnopqrstuvwxyz{|}~"

\* The character with code c; a control character, 0x60 or one above 0x7e is
\* written here in the notation \xhh.
Char(c) ==
    IF 32 <= c /\ c <= 95 THEN SubSeq(AsciiLow, c - 31, c - 31)
    ELSE IF 97 <= c /\ c <= 126 THEN SubSeq(AsciiHigh, c - 96, c - 96)
    ELSE "\\x" \o Digit(c \div 16) \o Digit(c % 16)

\* stream << (uint8_t) c : operator<< for unsigned char writes the character
\* itself, whatever the stream's base.
PutChar(s, c) == Put(s, Char(c))

\* The conversion of a uint64_t to the uint8_t parameter of a function.
U8(v) == Val(v \cap 0..7)

-----------------------------------------------------------------------------
(* Operand model *)

kX0 == 0
kXzr == kX0 + 31
kSp == kXzr + 1
kPc == kSp + 1

Register(size, name) == [kind |-> "Register", name |-> name, size |-> size]
Immediate(size, value) == [kind |-> "Immediate", value |-> value, size |-> size]
Shift(type, count) == [kind |-> "Shift", type |-> type, count |-> count]
Extend(type, count) == [kind |-> "Extend", type |-> type, count |-> count]
SystemRegister(name, op0, op1, crn, crm, op2) ==
    [kind |-> "SystemRegister", name |-> name,
     op0 |-> op0, op1 |-> op1, crn |-> crn, crm |-> crm, op2 |-> op2]
ImmediateOffset(base, offset, shift, writeback, post_index, size) ==
    [kind |-> "ImmediateOffset", base |-> base, offset |-> offset, shift |-> shift,
     writeback |-> writeback, post_index |-> post_index, size |-> size]
RegisterOffset(base, offset, extend, writeback, post_index, size) ==
    [kind |-> "RegisterOffset", base |-> base, offset |-> offset, extend |-> extend,
     writeback |-> writeback, post_index |-> post_index, size |-> size]

\* The int 1 << (size - 1), converted to uint64_t for the & with value.  Up
\* to bit 30 it is that bit; 1 << 31 is INT_MIN, whose conversion sets bits
\* 31..63; a shift by 32 or more is undefined: the build either takes the
\* count modulo 32 or folds the expression to 0.
SignMask(size) ==
    IF size - 1 < 31 THEN {size - 1}
    ELSE IF size - 1 = 31 THEN 31..63
    ELSE IF shiftUB = "wrap"
         THEN (IF (size - 1) % 32 = 31 THEN 31..63 ELSE {(size - 1) % 32})
         ELSE {}

-----------------------------------------------------------------------------
(* Operand formatter *)

PrintImmediate(s, opnd) ==
    PutU64(SetBase(Put(s, "#0x"), "hex"), opnd.value)

PrintSignedImmediate(s, opnd) ==
    IF And64(opnd.value, SignMask(opnd.size)) # {}
    THEN PutU64(SetBase(Put(s, "#-0x"), "hex"), Inc64(Not64(opnd.value)))
    ELSE PutU64(SetBase(Put(s, "#0x"), "hex"), opnd.value)

PrintRegister(s, opnd) ==
    IF kX0 <= opnd.name /\ opnd.name <= kXzr
    THEN LET s1 == Put(s, IF opnd.size <= 32 THEN "w" ELSE "x")
         IN  IF opnd.name = kXzr THEN Put(s1, "zr")
             ELSE PutNat(s1, opnd.name - kX0)
    ELSE IF opnd.name = kSp
    THEN Put(s, IF opnd.size <= 32 THEN "wsp" ELSE "sp")
    ELSE IF opnd.name = kPc
    THEN Put(s, "pc")
    ELSE Put(s, "<unsupported_reg>")

PrintShift(s, opnd) ==
    IF opnd.type # "kNone"
    THEN LET s1 == CASE opnd.type = "kLsl" -> Put(s, ", lsl ")
                     [] opnd.type = "kLsr" -> Put(s, ", lsr ")
                     [] opnd.type = "kAsr" -> Put(s, ", asr ")
                     [] opnd.type = "kRor" -> Put(s, ", ror ")
                     [] OTHER -> Abort(s)
         IN  PutNat(SetBase(Put(s1, "#0x"), "hex"), opnd.count)
    ELSE s

\* The op0..op2 fields are written as numbers (their C++ type is declared in
\* decoder.h); a name outside the six tested prints nothing.
PrintSystemRegister(s, opnd) ==
    IF opnd.name = "kUnknown"
    THEN LET s1 == PutNat(SetBase(Put(s, "S"), "dec"), opnd.op0)
             s2 == PutNat(SetBase(Put(s1, "_"), "dec"), opnd.op1)
             s3 == PutNat(SetBase(Put(s2, "_C"), "dec"), opnd.crn)
             s4 == PutNat(SetBase(Put(s3, "_C"), "dec"), opnd.crm)
         IN  PutNat(SetBase(Put(s4, "_"), "dec"), opnd.op2)
    ELSE IF opnd.name = "kSPSel" THEN Put(s, "SPSel")
    ELSE IF opnd.name = "kDAIFSet" THEN Put(s, "DAIFSet")
    ELSE IF opnd.name = "kDAIFClr" THEN Put(s, "DAIFClr")
    ELSE IF opnd.name = "kUAO" THEN Put(s, "UAO")
    ELSE IF opnd.name = "kPAN" THEN Put(s, "PAN")
    ELSE s

\* PrintExtend writing the lsl mnemonic whatever the count.
PrintExtend_LslAlways(s, opnd) ==
    IF opnd.type # "kNone"
    THEN LET s1 == CASE opnd.type = "kUxtb" -> Put(s, ", uxtb")
                     [] opnd.type = "kUxth" -> Put(s, ", uxth")
                     [] opnd.type = "kUxtw" -> Put(s, ", uxtw")
                     [] opnd.type = "kUxtx" -> Put(s, ", uxtx")
                     [] opnd.type = "kLsl" -> Put(s, ", lsl")
                     [] opnd.type = "kSxtb" -> Put(s, ", sxtb")
                     [] opnd.type = "kSxth" -> Put(s, ", sxth")
                     [] opnd.type = "kSxtw" -> Put(s, ", sxtw")
                     [] opnd.type = "kSxtx" -> Put(s, ", sxtx")
                     [] OTHER -> Abort(s)
         IN  IF opnd.count # 0
             THEN PutNat(SetBase(Put(s1, ", #"), "dec"), opnd.count)
             ELSE s1
    ELSE s

PrintExtend(s, opnd) ==
    IF opnd.type # "kNone"
    THEN LET s1 == CASE opnd.type = "kUxtb" -> Put(s, ", uxtb")
                     [] opnd.type = "kUxth" -> Put(s, ", uxth")
                     [] opnd.type = "kUxtw" -> Put(s, ", uxtw")
                     [] opnd.type = "kUxtx" -> Put(s, ", uxtx")
                     [] opnd.type = "kLsl" ->
                          IF opnd.count # 0 THEN Put(s, ", lsl") ELSE s
                     [] opnd.type = "kSxtb" -> Put(s, ", sxtb")
                     [] opnd.type = "kSxth" -> Put(s, ", sxth")
                     [] opnd.type = "kSxtw" -> Put(s, ", sxtw")
                     [] opnd.type = "kSxtx" -> Put(s, ", sxtx")
                     [] OTHER -> Abort(s)
         IN  IF opnd.count # 0
             THEN PutNat(SetBase(Put(s1, ", #"), "dec"), opnd.count)
             ELSE s1
    ELSE s

\* PrintImmediateOffset closing the bracket after the base on post_index alone.
PrintImmediateOffset_PostOnly(s, opnd) ==
    LET s1 == PrintRegister(Put(s, "["), opnd.base)
        s2 == IF opnd.post_index THEN Put(s1, "]") ELSE s1
        s3 == IF opnd.offset.value # {}
              THEN PrintShift(PrintSignedImmediate(Put(s2, ", "), opnd.offset), opnd.shift)
              ELSE s2
    IN  IF ~opnd.post_index
        THEN LET s4 == Put(s3, "]")
             IN  IF opnd.writeback THEN Put(s4, "!") ELSE s4
        ELSE s3

\* stream << opnd.base and stream << opnd.shift go through operator<< for an
\* Operand; the base is a Register, the shift a Shift.
\* PrintImmediateOffset writing `!` whenever writeback is set.
PrintImmediateOffset_BangOnWriteback(s, opnd) ==
    LET s1 == PrintRegister(Put(s, "["), opnd.base)
        s2 == IF opnd.writeback /\ opnd.post_index THEN Put(s1, "]") ELSE s1
        s3 == IF opnd.offset.value # {}
              THEN PrintShift(PrintSignedImmediate(Put(s2, ", "), opnd.offset), opnd.shift)
              ELSE s2
        s4 == IF ~opnd.writeback \/ ~opnd.post_index THEN Put(s3, "]") ELSE s3
    IN  IF opnd.writeback THEN Put(s4, "!") ELSE s4

PrintImmediateOffset(s, opnd) ==
    LET s1 == PrintRegister(Put(s, "["), opnd.base)
        s2 == IF opnd.writeback /\ opnd.post_index THEN Put(s1, "]") ELSE s1
        s3 == IF opnd.offset.value # {}
              THEN PrintShift(PrintSignedImmediate(Put(s2, ", "), opnd.offset), opnd.shift)
              ELSE s2
    IN  IF ~opnd.writeback \/ ~opnd.post_index
        THEN LET s4 == Put(s3, "]")
             IN  IF opnd.writeback THEN Put(s4, "!") ELSE s4
        ELSE s3

PrintRegisterOffset(s, opnd) ==
    LET s1 == PrintRegister(Put(s, "["), opnd.base)
        s2 == IF opnd.writeback /\ opnd.post_index THEN Put(s1, "]") ELSE s1
        s3 == PrintExtend(PrintRegister(Put(s2, ", "), opnd.offset), opnd.extend)
    IN  IF ~opnd.writeback \/ ~opnd.post_index
        THEN LET s4 == Put(s3, "]")
             IN  IF opnd.writeback THEN Put(s4, "!") ELSE s4
        ELSE s3

\* operator<<(std::ostream&, Operand)
PrintOperand(s, operand) ==
    CASE operand.kind = "Immediate" -> PrintImmediate(s, operand)
      [] operand.kind = "Register" -> PrintRegister(s, operand)
      [] operand.kind = "SystemRegister" -> PrintSystemRegister(s, operand)
      [] operand.kind = "Shift" -> PrintShift(s, operand)
      [] operand.kind = "Extend" -> PrintExtend(s, operand)
      [] operand.kind = "ImmediateOffset" -> PrintImmediateOffset(s, operand)
      [] operand.kind = "RegisterOffset" -> PrintRegisterOffset(s, operand)
      [] OTHER -> Put(s, "<unsupported_opnd>")

\* PrintOperands: every operand after the first is preceded by ", " unless it
\* is a Shift.
RECURSIVE PrintOperandsFrom(_, _, _)
PrintOperandsFrom(s, opnds, k) ==
    IF k > Len(opnds) THEN s
    ELSE LET s1 == IF k # 1 /\ opnds[k].kind # "Shift" THEN Put(s, ", ") ELSE s
         IN  PrintOperandsFrom(PrintOperand(s1, opnds[k]), opnds, k + 1)

PrintOperands(s, opnds) == PrintOperandsFrom(s, opnds, 1)

\* The table with the architectural name nv for encoding 15.
static_condition_codes_Nv ==
    <<"eq", "ne", "cs", "cc", "mi", "pl", "vs", "vc",
      "hi", "ls", "ge", "lt", "gt", "le", "al", "nv">>

static_condition_codes ==
    <<"eq", "ne", "cs", "cc", "mi", "pl", "vs", "vc",
      "hi", "ls", "ge", "lt", "gt", "le", "al", "al">>

PrintConditionCode(s, cc) == Put(s, static_condition_codes[cc + 1])

PrintPrefetchOp(s, prfop) ==
    IF (prfop \div 8) % 4 = 3 \/ (prfop \div 2) % 4 = 3
    THEN PutChar(SetBase(Put(s, "#"), "dec"), prfop)
    ELSE LET s1 == CASE (prfop \div 8) % 4 = 0 -> Put(s, "PLD")
                     [] (prfop \div 8) % 4 = 1 -> Put(s, "PLI")
                     [] (prfop \div 8) % 4 = 2 -> Put(s, "PST")
                     [] OTHER -> Abort(s)
             s2 == CASE (prfop \div 2) % 4 = 0 -> Put(s1, "L1")
                     [] (prfop \div 2) % 4 = 1 -> Put(s1, "L2")
                     [] (prfop \div 2) % 4 = 2 -> Put(s1, "L3")
                     [] OTHER -> Abort(s1)
         IN  IF prfop % 2 = 0 THEN Put(s2, "KEEP") ELSE Put(s2, "STRM")

PrintBarrierType(s, option) ==
    IF (option \div 2) % 2 = option % 2
    THEN PutChar(SetBase(Put(s, "#"), "dec"), option)
    ELSE LET s1 == CASE option \div 4 = 0 -> Put(s, "os")
                     [] option \div 4 = 1 -> Put(s, "nsh")
                     [] option \div 4 = 2 -> Put(s, "ish")
                     [] option \div 4 = 3 ->
                          IF option = 15 THEN Put(s, "sy") ELSE s
                     [] OTHER -> s
         IN  CASE option % 4 = 1 -> Put(s1, "ld")
               [] option % 4 = 2 -> Put(s1, "st")
               [] OTHER -> Abort(s1)

-----------------------------------------------------------------------------
(* Instructions *)

Instruction(opcode, operands, set_flags, cc) ==
    [opcode |-> opcode, operands |-> operands, set_flags |-> set_flags, cc |-> cc]

NoInsn == Instruction("none", <<>>, FALSE, 0)

\* absl::get<T>(insn.operands[i]) succeeds for each of the handler's operands
Holds(i, kinds) ==
    /\ Len(i.operands) >= Len(kinds)
    /\ \A k \in 1..Len(kinds) : i.operands[k].kind = kinds[k]


\* One insertion into the stream: a literal, an operand (through
\* operator<<(std::ostream&, Operand)), a uint64_t, or the std::dec manipulator.
L(str) == [ins |-> "lit", str |-> str]
O(opnd) == [ins |-> "opnd", opnd |-> opnd]
N(v) == [ins |-> "u64", v |-> v]
Dec == [ins |-> "dec"]

I(i) == [ins |-> "insn", insn |-> i]

\* stream << x1 << x2 << ... in order (defined with the dispatch)
RECURSIVE Chain(_, _)

RECURSIVE AddC(_, _, _, _)
AddC(a, b, i, c) ==
    IF i > 63 THEN {}
    ELSE LET t == (IF i \in a THEN 1 ELSE 0) + (IF i \in b THEN 1 ELSE 0) + c
         IN  (IF t % 2 = 1 THEN {i} ELSE {}) \cup AddC(a, b, i + 1, t \div 2)

\* unsigned a < b
Lt64(a, b) ==
    LET d == (a \ b) \cup (b \ a) IN d # {} /\ Max(d) \in b

\* a + b and a - b modulo 2^64 (on naturals where nothing wraps)
Add64(a, b) ==
    IF Small(a) /\ Small(b) THEN U64(Val(a) + Val(b)) ELSE AddC(a, b, 0, 0)
Sub64(a, b) ==
    IF Small(a) /\ Small(b) /\ ~Lt64(a, b) THEN U64(Val(a) - Val(b))
    ELSE AddC(a, Not64(b), 0, 1)

-----------------------------------------------------------------------------
(* Family handlers *)

\* The Opcode enumeration, in its declared order: the opcodes the handlers
\* name, family after family, each family ending with the opcode the dispatch
\* compares with.  kUmulh, which PrintDataProcessingThreeSource names after
\* kUmsubl, stands for the opcodes above the last bound.
OpcodeOrder ==
    <<"kAdr", "kAdrp",
      "kAddImmediate", "kSubImmediate",
      "kAndImmediate", "kOrrImmediate", "kEorImmediate",
      "kMovk", "kMovn", "kMovz",
      "kBfm", "kSbfm", "kUbfm",
      "kExtr",
      "kBCond",
      "kBrk", "kDcps1", "kDcps2", "kDcps3", "kHlt", "kHvc", "kSmc", "kSvc",
      "kAutia1716", "kAutiasp", "kAutiaz", "kAutib1716", "kAutibsp", "kAutibz",
      "kClrex", "kDmb", "kDsb", "kEsb", "kHint", "kIsb", "kMrs", "kMsr", "kNop",
      "kPacia1716", "kPaciasp", "kPaciaz", "kPacib1716", "kPacibsp", "kPacibz",
      "kPsbCsync", "kSev", "kSevl", "kSys", "kSysl", "kWfe", "kWfi", "kXpaclri",
      "kYield",
      "kBlr", "kBlraa", "kBlraaz", "kBlrab", "kBlrabz", "kBr", "kBraa", "kBraaz",
      "kBrab", "kBrabz", "kDrps", "kEret", "kEretaa", "kEretab", "kRet", "kRetaa",
      "kRetaaz", "kRetab", "kRetabz",
      "kB", "kBl",
      "kCbnz", "kCbz",
      "kTbnz", "kTbz",
      "kLdar", "kLdaxp", "kLdaxr", "kLdlar", "kLdxp", "kLdxr",
      "kStllr", "kStlr", "kStlxp", "kStlxr", "kStxp", "kStxr",
      "kLdrLiteral", "kLdrsLiteral", "kPrfmLiteral",
      "kLdnp", "kLdp", "kLdpsw", "kStnp", "kStp",
      "kLdr", "kLdrs", "kLdtr", "kLdtrs", "kLdur", "kLdurs", "kPrfm", "kStr",
      "kSttr", "kStur",
      "kAsr", "kCrc32b", "kCrc32cb", "kCrc32ch", "kCrc32cw", "kCrc32cx", "kCrc32h",
      "kCrc32w", "kCrc32x", "kLsl", "kLsr", "kPacga", "kRor", "kSdiv", "kUdiv",
      "kAutda", "kAutdb", "kAutia", "kAutib", "kCls", "kClz", "kPacda", "kPacdb",
      "kPacia", "kPacib", "kRbit", "kRev", "kRev16", "kRev32", "kXpacd", "kXpaci",
      "kAndShiftedRegister", "kBicShiftedRegister", "kOrrShiftedRegister",
      "kOrnShiftedRegister", "kEorShiftedRegister", "kEonShiftedRegister",
      "kAddShiftedRegister", "kSubShiftedRegister",
      "kAddExtendedRegister", "kSubExtendedRegister",
      "kAdc", "kSbc",
      "kCcmn", "kCcmp",
      "kCsel", "kCsinc", "kCsinv", "kCsneg",
      "kMadd", "kMsub", "kSmaddl", "kSmsubl", "kSmulh", "kUmaddl", "kUmsubl",
      "kUmulh">>

Ord ==
    [opcode \in {OpcodeOrder[k] : k \in 1..Len(OpcodeOrder)} |->
        CHOOSE k \in 1..Len(OpcodeOrder) : OpcodeOrder[k] = opcode]

\* insn.opcode <= bound with < written for <=.
Lt(opcode, bound) == Ord[opcode] < Ord[bound]

\* insn.opcode <= bound
Le(opcode, bound) == Ord[opcode] <= Ord[bound]


PrintAddSubtractImmediate(s, i) ==
    IF ~Holds(i, <<"Register", "Register", "Immediate", "Shift">>) THEN Throw(s)
    ELSE
    LET rd == i.operands[1]
        rn == i.operands[2]
        imm == i.operands[3]
        shift == i.operands[4]
    IN  IF \/ (imm.value = {} /\ ~i.set_flags /\ rd.name = kSp)
           \/ (imm.value = {} /\ rn.name = kSp)
        THEN Chain(s, <<L("mov "), O(rd), L(", "), O(rn)>>)
        ELSE IF rd.name = kXzr
        THEN Chain(s, <<L(IF i.opcode = "kSubImmediate" THEN "cmp " ELSE "cmn "),
                        O(rn), L(", "), O(imm), O(shift)>>)
        ELSE Chain(s, <<L(IF i.opcode = "kSubImmediate" THEN "sub" ELSE "add"),
                        L(IF i.set_flags THEN "s " ELSE " "),
                        O(rd), L(", "), O(rn), L(", "), O(imm), O(shift)>>)

PrintLogicalImmediate(s, i) ==
    IF ~Holds(i, <<"Register", "Register", "Immediate">>) THEN Throw(s)
    ELSE
    LET rd == i.operands[1]
        rn == i.operands[2]
        imm == i.operands[3]
        s1 == CASE i.opcode = "kAndImmediate" ->
                     IF ~i.set_flags THEN Put(s, "and ")
                     ELSE IF rd.name = kXzr THEN Put(s, "tst ")
                     ELSE Put(s, "ands ")
                [] i.opcode = "kOrrImmediate" ->
                     IF rn.name = kXzr THEN Put(s, "mov ") ELSE Put(s, "orr ")
                [] i.opcode = "kEorImmediate" -> Put(s, "eor ")
                [] OTHER -> Abort(s)
        s2 == IF i.opcode # "kAndImmediate" \/ rd.name # kXzr
              THEN Chain(s1, <<O(rd), L(", ")>>) ELSE s1
        s3 == IF i.opcode # "kOrrImmediate" \/ rn.name # kXzr
              THEN Chain(s2, <<O(rn), L(", ")>>) ELSE s2
    IN  Chain(s3, <<O(imm)>>)

PrintMoveWideImmediate(s, i) ==
    IF ~(Len(i.operands) >= 3 /\ i.operands[2].kind = "Immediate"
                              /\ i.operands[3].kind = "Shift") THEN Throw(s)
    ELSE
    LET imm0 == i.operands[2]
        shift == i.operands[3]
        s1 == CASE i.opcode = "kMovn" -> Put(s, "mov ")
                [] i.opcode = "kMovz" -> Put(s, "mov ")
                [] i.opcode = "kMovk" -> Put(s, "movk ")
                [] OTHER -> Abort(s)
        v1 == CASE i.opcode = "kMovn" -> Not64(Shl64(imm0.value, shift.count))
                [] i.opcode = "kMovz" -> Shl64(imm0.value, shift.count)
                [] OTHER -> imm0.value
        v2 == IF imm0.size = 32 THEN And64(v1, 0..31) ELSE v1
        imm == [imm0 EXCEPT !.value = v2]
        s2 == Chain(s1, <<O(i.operands[1]), L(", "), O(imm)>>)
    IN  IF i.opcode = "kMovk" THEN Chain(s2, <<O(shift)>>) ELSE s2

PrintBitfield(s, i) ==
    IF ~Holds(i, <<"Register", "Register", "Immediate", "Immediate">>) THEN Throw(s)
    ELSE
    LET rd == i.operands[1]
        rn == i.operands[2]
        immr == i.operands[3]
        imms == i.operands[4]
        lsb == N(Sub64(U64(immr.size), immr.value))
        width == N(Add64(imms.value, U64(1)))
        xwidth == N(Add64(Sub64(imms.value, immr.value), U64(1)))
    IN  IF i.opcode = "kBfm"
        THEN LET s1 == IF rn.name = kXzr /\ Lt64(imms.value, immr.value)
                       THEN Chain(s, <<L("bfc "), O(rd)>>)
                       ELSE IF Lt64(imms.value, immr.value)
                       THEN Chain(s, <<L("bfi "), O(rd), L(", "), O(rn)>>)
                       ELSE Chain(s, <<L("bfxil "), O(rd), L(", "), O(rn)>>)
             IN  Chain(s1, <<L(", #"), lsb, L(", #"), width>>)
        ELSE IF i.opcode = "kSbfm"
        THEN IF \/ (imms.size = 32 /\ imms.value = U64(31))
                \/ (imms.size = 64 /\ imms.value = U64(63))
             THEN Chain(s, <<L("asr "), O(rd), L(", "), O(rn), L(", #"), N(immr.value)>>)
             ELSE IF Lt64(imms.value, immr.value)
             THEN Chain(s, <<L("sbfiz "), O(rd), L(", "), O(rn),
                             L(", #"), lsb, L(", #"), width>>)
             ELSE IF immr.value = {} /\ imms.value = U64(7)
             THEN Chain(s, <<L("sxtb "), O(rd), L(", "), O(rn)>>)
             ELSE IF immr.value = {} /\ imms.value = U64(15)
             THEN Chain(s, <<L("sxth "), O(rd), L(", "), O(rn)>>)
             ELSE IF immr.value = {} /\ imms.value = U64(31)
             THEN Chain(s, <<L("sxtw "), O(rd), L(", "), O(rn)>>)
             ELSE Chain(s, <<L("sbfx "), O(rd), L(", "), O(rn),
                             L(", #"), N(immr.value), L(", #"), xwidth>>)
        ELSE IF i.opcode = "kUbfm"
        THEN IF /\ Add64(imms.value, U64(1)) = immr.value
                /\ imms.value # U64(31) /\ imms.value # U64(63)
             THEN Chain(s, <<L("lsl "), O(rd), L(", "), O(rn), L(", #"), lsb>>)
             ELSE IF imms.value = U64(31) \/ imms.value = U64(63)
             THEN Chain(s, <<L("lsr "), O(rd), L(", "), O(rn), L(", #"), N(immr.value)>>)
             ELSE IF Lt64(imms.value, immr.value)
             THEN Chain(s, <<L("ubfiz "), O(rd), L(", "), O(rn),
                             L(", #"), lsb, L(", #"), width>>)
             ELSE IF immr.value = {} /\ imms.value = U64(7)
             THEN Chain(s, <<L("uxtb "), O(rd), L(", "), O(rn)>>)
             ELSE IF immr.value = {} /\ imms.value = U64(15)
             THEN Chain(s, <<L("uxth "), O(rd), L(", "), O(rn)>>)
             ELSE IF immr.value = {} /\ imms.value = U64(31)
             THEN Chain(s, <<L("uxtw "), O(rd), L(", "), O(rn)>>)
             ELSE Chain(s, <<L("ubfx "), O(rd), L(", "), O(rn),
                             L(", #"), N(immr.value), L(", #"), xwidth>>)
        ELSE s

PrintBranchImmediate(s, i) ==
    IF ~Holds(i, <<"Immediate">>) THEN Throw(s)
    ELSE PrintSignedImmediate(Put(s, IF i.opcode = "kBl" THEN "bl " ELSE "b "),
                              i.operands[1])

\* PrintConditionalSelect with the cset test of CSINC written with || for &&.
PrintConditionalSelect_EitherZero(s, i) ==
    IF ~Holds(i, <<"Register", "Register", "Register">>) THEN Throw(s)
    ELSE
    LET rd == i.operands[1]
        rn == i.operands[2]
        rm == i.operands[3]
        s1 == IF i.opcode = "kCsel"
              THEN Chain(s, <<L("csel "), O(rd), L(", "), O(rn), L(", "), O(rm)>>)
              ELSE IF i.opcode = "kCsinc"
              THEN IF rn.name = kXzr \/ rm.name = kXzr
                   THEN Chain(s, <<L("cset "), O(rd)>>)
                   ELSE IF rn.name = rm.name
                   THEN Chain(s, <<L("cinc "), O(rd), L(", "), O(rn)>>)
                   ELSE Chain(s, <<L("csinc "), O(rd), L(", "), O(rn), L(", "), O(rm)>>)
              ELSE IF i.opcode = "kCsinv"
              THEN IF rn.name = kXzr /\ rm.name = kXzr
                   THEN Chain(s, <<L("csetm "), O(rd)>>)
                   ELSE IF rn.name = rm.name
                   THEN Chain(s, <<L("cinv "), O(rd), L(", "), O(rn)>>)
                   ELSE Chain(s, <<L("csinv "), O(rd), L(", "), O(rn), L(", "), O(rm)>>)
              ELSE IF i.opcode = "kCsneg"
              THEN IF rn.name = rm.name
                   THEN Chain(s, <<L("cneg "), O(rd), L(", "), O(rn)>>)
                   ELSE Chain(s, <<L("csneg "), O(rd), L(", "), O(rn), L(", "), O(rm)>>)
              ELSE Abort(s)
    IN  PrintConditionCode(Put(s1, ", "), i.cc)


PrintConditionalSelect(s, i) ==
    IF ~Holds(i, <<"Register", "Register", "Register">>) THEN Throw(s)
    ELSE
    LET rd == i.operands[1]
        rn == i.operands[2]
        rm == i.operands[3]
        s1 == IF i.opcode = "kCsel"
              THEN Chain(s, <<L("csel "), O(rd), L(", "), O(rn), L(", "), O(rm)>>)
              ELSE IF i.opcode = "kCsinc"
              THEN IF rn.name = kXzr /\ rm.name = kXzr
                   THEN Chain(s, <<L("cset "), O(rd)>>)
                   ELSE IF rn.name = rm.name
                   THEN Chain(s, <<L("cinc "), O(rd), L(", "), O(rn)>>)
                   ELSE Chain(s, <<L("csinc "), O(rd), L(", "), O(rn), L(", "), O(rm)>>)
              ELSE IF i.opcode = "kCsinv"
              THEN IF rn.name = kXzr /\ rm.name = kXzr
                   THEN Chain(s, <<L("csetm "), O(rd)>>)
                   ELSE IF rn.name = rm.name
                   THEN Chain(s, <<L("cinv "), O(rd), L(", "), O(rn)>>)
                   ELSE Chain(s, <<L("csinv "), O(rd), L(", "), O(rn), L(", "), O(rm)>>)
              ELSE IF i.opcode = "kCsneg"
              THEN IF rn.name = rm.name
                   THEN Chain(s, <<L("cneg "), O(rd), L(", "), O(rn)>>)
                   ELSE Chain(s, <<L("csneg "), O(rd), L(", "), O(rn), L(", "), O(rm)>>)
              ELSE Abort(s)
    IN  PrintConditionCode(Put(s1, ", "), i.cc)


\* insn.operands[k - 1] holds the alternative `kind`
Is(i, k, kind) == i.operands[k].kind = kind

PrintPcRelativeAddressing(s, i) ==
    IF ~Holds(i, <<"Register", "Immediate", "Shift">>) THEN Throw(s)
    ELSE
    LET rd == i.operands[1]
        imm == i.operands[2]
    IN  IF i.opcode = "kAdr"
        THEN Chain(s, <<L("adr "), O(rd), L(", "), O(imm)>>)
        ELSE Chain(s, <<L("adrp "), O(rd), L(", "),
                        O([imm EXCEPT !.value = Shl64(@, 12)])>>)

PrintExtract(s, i) ==
    IF ~Holds(i, <<"Register", "Register", "Register", "Immediate">>) THEN Throw(s)
    ELSE
    LET rd == i.operands[1]
        rn == i.operands[2]
        rm == i.operands[3]
        imm == i.operands[4]
        s1 == IF rn.name = rm.name
              THEN Chain(s, <<L("ror "), O(rd), L(", "), O(rn)>>)
              ELSE Chain(s, <<L("extr "), O(rd), L(", "), O(rn), L(", "), O(rm)>>)
    IN  Chain(s1, <<L(", #"), Dec, N(imm.value)>>)

PrintConditionalBranch(s, i) ==
    IF ~Holds(i, <<"Immediate">>) THEN Throw(s)
    ELSE PrintSignedImmediate(Put(PrintConditionCode(Put(s, "b."), i.cc), " "),
                              i.operands[1])

PrintExceptionGeneration(s, i) ==
    IF ~Holds(i, <<"Immediate">>) THEN Throw(s)
    ELSE
    LET imm == i.operands[1]
        WithImm(m) == Chain(s, <<L(m), Dec, N(imm.value)>>)
    IN  CASE i.opcode = "kSvc" -> WithImm("svc #")
          [] i.opcode = "kHvc" -> WithImm("hvc #")
          [] i.opcode = "kSmc" -> WithImm("smc #")
          [] i.opcode = "kBrk" -> WithImm("brk #")
          [] i.opcode = "kHlt" -> WithImm("hlt #")
          [] i.opcode = "kDcps1" -> Put(s, "dcps1")
          [] i.opcode = "kDcps2" -> Put(s, "dcps2")
          [] i.opcode = "kDcps3" -> Put(s, "dcps3")
          [] OTHER -> Abort(s)

PrintSystem(s, i) ==
    CASE i.opcode = "kNop" -> Put(s, "nop")
      [] i.opcode = "kYield" -> Put(s, "yield")
      [] i.opcode = "kWfe" -> Put(s, "wfe")
      [] i.opcode = "kWfi" -> Put(s, "wfi")
      [] i.opcode = "kSev" -> Put(s, "sev")
      [] i.opcode = "kSevl" -> Put(s, "sevl")
      [] i.opcode = "kXpaclri" -> Put(s, "xapclri")
      [] i.opcode = "kPacia1716" -> Put(s, "pacia1716")
      [] i.opcode = "kPacib1716" -> Put(s, "pacib1716")
      [] i.opcode = "kAutia1716" -> Put(s, "autia1716")
      [] i.opcode = "kAutib1716" -> Put(s, "autib1716")
      [] i.opcode = "kEsb" -> Put(s, "esb")
      [] i.opcode = "kPsbCsync" -> Put(s, "psb csync")
      [] i.opcode = "kPaciaz" -> Put(s, "paciaz")
      [] i.opcode = "kPaciasp" -> Put(s, "paciasp")
      [] i.opcode = "kPacibz" -> Put(s, "pacibz")
      [] i.opcode = "kPacibsp" -> Put(s, "pacibsp")
      [] i.opcode = "kAutiaz" -> Put(s, "autiaz")
      [] i.opcode = "kAutiasp" -> Put(s, "autiasp")
      [] i.opcode = "kAutibz" -> Put(s, "autibz")
      [] i.opcode = "kAutibsp" -> Put(s, "autibsp")
      [] i.opcode = "kHint" -> Chain(s, <<L("hint "), O(i.operands[1])>>)
      [] i.opcode = "kClrex" -> Put(s, "clrex")
      [] i.opcode = "kDsb" ->
           IF ~Is(i, 1, "Immediate") THEN Throw(s)
           ELSE PrintBarrierType(Put(s, "dsb "), U8(i.operands[1].value))
      [] i.opcode = "kDmb" ->
           IF ~Is(i, 1, "Immediate") THEN Throw(s)
           ELSE PrintBarrierType(Put(s, "dmb "), U8(i.operands[1].value))
      [] i.opcode = "kIsb" ->
           IF ~Is(i, 1, "Immediate") THEN Throw(s)
           ELSE IF i.operands[1].value # U64(15)
           THEN Chain(s, <<L("isb"), L(" #"), Dec, N(i.operands[1].value)>>)
           ELSE Put(s, "isb")
      [] i.opcode = "kSys" ->
           IF ~Holds(i, <<"Immediate", "Immediate", "Immediate", "Immediate", "Register">>)
           THEN Throw(s)
           ELSE LET s1 == Chain(s, <<L("sys "),
                                     L("#"), Dec, N(i.operands[1].value),
                                     L(", C"), Dec, N(i.operands[2].value),
                                     L(", C"), Dec, N(i.operands[3].value),
                                     L(", #"), Dec, N(i.operands[4].value)>>)
                IN  IF i.operands[5].name # kXzr
                    THEN Chain(s1, <<L(", "), O(i.operands[5])>>)
                    ELSE s1
      [] i.opcode = "kMsr" -> PrintOperands(Put(s, "msr "), i.operands)
      [] i.opcode = "kSysl" ->
           IF ~Holds(i, <<"Register", "Immediate", "Immediate", "Immediate", "Immediate">>)
           THEN Throw(s)
           ELSE Chain(s, <<L("sysl "), O(i.operands[1]),
                           L(", #"), Dec, N(i.operands[2].value),
                           L(", C"), Dec, N(i.operands[3].value),
                           L(", C"), Dec, N(i.operands[4].value),
                           L(", #"), Dec, N(i.operands[5].value)>>)
      [] i.opcode = "kMrs" -> PrintOperands(Put(s, "mrs "), i.operands)
      [] OTHER -> Abort(s)

PrintBranchRegister(s, i) ==
    IF ~Holds(i, <<"Register">>) THEN Throw(s)
    ELSE
    LET rn == i.operands[1]
        Ret(m) == IF rn.name # kX0 + 30
                  THEN Chain(s, <<L(m), L(" "), O(rn)>>)
                  ELSE Put(s, m)
    IN  CASE i.opcode = "kBr" -> Chain(s, <<L("br "), O(rn)>>)
          [] i.opcode = "kBraaz" -> Chain(s, <<L("braaz "), O(rn)>>)
          [] i.opcode = "kBrabz" -> Chain(s, <<L("brabz"), O(rn)>>)
          [] i.opcode = "kBlr" -> Chain(s, <<L("blr "), O(rn)>>)
          [] i.opcode = "kBlraaz" -> Chain(s, <<L("blraaz "), O(rn)>>)
          [] i.opcode = "kBlrabz" -> Chain(s, <<L("blrabz "), O(rn)>>)
          [] i.opcode = "kRet" -> Ret("ret")
          [] i.opcode = "kRetaa" -> Ret("retaa")
          [] i.opcode = "kRetab" -> Ret("retab")
          [] i.opcode = "kEret" -> Put(s, "eret")
          [] i.opcode = "kEretaa" -> Put(s, "eretaa")
          [] i.opcode = "kEretab" -> Put(s, "eretab")
          [] i.opcode = "kDrps" -> Put(s, "drps")
          [] i.opcode = "kBraa" ->
               Chain(s, <<L("braa "), O(rn), L(", "), O(i.operands[2])>>)
          [] i.opcode = "kBrab" ->
               Chain(s, <<L("brab "), O(rn), L(", "), O(i.operands[2])>>)
          [] i.opcode = "kBlraa" ->
               Chain(s, <<L("blraa "), O(rn), L(", "), O(i.operands[2])>>)
          [] i.opcode = "kBlrab" ->
               Chain(s, <<L("blrab "), O(rn), L(", "), O(i.operands[2])>>)
          [] OTHER -> Abort(s)

PrintCompareAndBranch(s, i) ==
    IF ~(Len(i.operands) >= 2 /\ Is(i, 2, "Immediate")) THEN Throw(s)
    ELSE LET s1 == Put(s, IF i.opcode = "kCbz" THEN "cbz " ELSE "cbnz ")
         IN  PrintSignedImmediate(Chain(s1, <<O(i.operands[1]), L(", ")>>),
                                  i.operands[2])

PrintTestAndBranch(s, i) ==
    IF ~(Len(i.operands) >= 3 /\ Is(i, 2, "Immediate") /\ Is(i, 3, "Immediate"))
    THEN Throw(s)
    ELSE LET s1 == Put(s, IF i.opcode = "kTbz" THEN "tbz " ELSE "tbnz ")
         IN  PrintSignedImmediate(
                 Chain(s1, <<O(i.operands[1]), L(", #"), Dec, N(i.operands[2].value),
                             L(", ")>>),
                 i.operands[3])

\* The stream and the local `size` after absl::get<Register>(insn.operands[k - 1]).size
SizeOf(s, i, k) ==
    IF Is(i, k, "Register")
    THEN [stream |-> s, size |-> i.operands[k].size]
    ELSE [stream |-> Throw(s), size |-> 64]

PrintLoadStoreExclusive(s, i) ==
    LET pair == i.opcode \in {"kLdxp", "kLdaxp", "kStxp", "kStlxp"}
        r == IF Le(i.opcode, "kLdxr")
             THEN SizeOf(Put(s, CASE i.opcode = "kLdxr" -> "ldxr"
                                  [] i.opcode = "kLdxp" -> "ldxp "
                                  [] i.opcode = "kLdaxr" -> "ldaxr"
                                  [] i.opcode = "kLdaxp" -> "ldaxp "
                                  [] i.opcode = "kLdlar" -> "ldlar"
                                  [] OTHER -> "ldar"),
                         i, 1)
             ELSE IF Le(i.opcode, "kStxr")
             THEN SizeOf(Put(s, CASE i.opcode = "kStxr" -> "stxr"
                                  [] i.opcode = "kStxp" -> "stxp "
                                  [] i.opcode = "kStlxr" -> "stlxr"
                                  [] i.opcode = "kStlxp" -> "stlxp "
                                  [] i.opcode = "kStllr" -> "stllr"
                                  [] i.opcode = "kStlr" -> "stlr"
                                  [] OTHER -> ""),
                         i, IF i.opcode # "kStlr" /\ i.opcode # "kStllr" THEN 2 ELSE 1)
             ELSE [stream |-> s, size |-> 64]
        s1 == IF ~pair
              THEN Put(r.stream, IF r.size = 8 THEN "b "
                                 ELSE IF r.size = 16 THEN "h " ELSE " ")
              ELSE r.stream
    IN  PrintOperands(s1, i.operands)

PrintLoadLiteral(s, i) ==
    IF ~(Len(i.operands) >= 2 /\ Is(i, 2, "ImmediateOffset")) THEN Throw(s)
    ELSE
    LET imm_off == i.operands[2]
        s1 == CASE i.opcode = "kLdrLiteral" -> Put(s, "ldr ")
                [] i.opcode = "kLdrsLiteral" -> Put(s, "ldrsw ")
                [] i.opcode = "kPrfmLiteral" -> Put(s, "prfm ")
                [] OTHER -> Abort(s)
        s2 == IF i.opcode = "kPrfmLiteral"
              THEN IF ~Is(i, 1, "Immediate") THEN Throw(s1)
                   ELSE PrintPrefetchOp(s1, U8(i.operands[1].value))
              ELSE Chain(s1, <<O(i.operands[1]), L(", ")>>)
    IN  PrintSignedImmediate(s2, imm_off.offset)

PrintLoadStorePair(s, i) ==
    LET s1 == CASE i.opcode = "kLdp" -> Put(s, "ldp ")
                [] i.opcode = "kLdpsw" -> Put(s, "ldpsw ")
                [] i.opcode = "kLdnp" -> Put(s, "ldnp ")
                [] i.opcode = "kStp" -> Put(s, "stp ")
                [] i.opcode = "kStnp" -> Put(s, "stnp ")
                [] OTHER -> Abort(s)
    IN  PrintOperands(s1, i.operands)

PrintLoadStore(s, i) ==
    IF ~(Is(i, 2, "ImmediateOffset") \/ Is(i, 2, "RegisterOffset")) THEN Abort(s)
    ELSE
    LET size == i.operands[2].size
    IN  IF i.opcode = "kPrfm"
        THEN IF ~Is(i, 1, "Immediate") THEN Throw(s)
             ELSE Chain(PrintPrefetchOp(Put(s, "prfm "), U8(i.operands[1].value)),
                        <<L(", "), O(i.operands[2])>>)
        ELSE
        LET s1 == CASE i.opcode = "kLdr" -> Put(s, "ldr")
                    [] i.opcode = "kLdur" -> Put(s, "ldur")
                    [] i.opcode = "kLdtr" -> Put(s, "ldtr")
                    [] i.opcode = "kLdrs" -> Put(s, "ldrs")
                    [] i.opcode = "kLdurs" -> Put(s, "ldurs")
                    [] i.opcode = "kLdtrs" -> Put(s, "ldtrs")
                    [] i.opcode = "kStr" -> Put(s, "str")
                    [] i.opcode = "kStur" -> Put(s, "stur")
                    [] i.opcode = "kSttr" -> Put(s, "sttr")
                    [] OTHER -> Abort(s)
            s2 == IF size = 8 THEN Put(s1, "b ")
                  ELSE IF size = 16 THEN Put(s1, "h ")
                  ELSE IF size = 32 /\ i.opcode \in {"kLdrs", "kLdurs", "kLdtrs"}
                  THEN Put(s1, "w ")
                  ELSE Put(s1, " ")
        IN  PrintOperands(s2, i.operands)

PrintDataProcessingTwoSource(s, i) ==
    LET s1 == CASE i.opcode = "kAsr" -> Put(s, "asr ")
                [] i.opcode = "kLsl" -> Put(s, "lsl ")
                [] i.opcode = "kLsr" -> Put(s, "lsr ")
                [] i.opcode = "kRor" -> Put(s, "ror ")
                [] i.opcode = "kSdiv" -> Put(s, "sdiv ")
                [] i.opcode = "kUdiv" -> Put(s, "udiv ")
                [] i.opcode = "kPacga" -> Put(s, "pacga ")
                [] i.opcode = "kCrc32b" -> Put(s, "crc32b ")
                [] i.opcode = "kCrc32h" -> Put(s, "crc32h ")
                [] i.opcode = "kCrc32w" -> Put(s, "crc32w ")
                [] i.opcode = "kCrc32x" -> Put(s, "crc32x ")
                [] i.opcode = "kCrc32cb" -> Put(s, "crc32cb ")
                [] i.opcode = "kCrc32ch" -> Put(s, "crc32ch ")
                [] i.opcode = "kCrc32cw" -> Put(s, "crc32cw ")
                [] i.opcode = "kCrc32cx" -> Put(s, "crc32cx ")
                [] OTHER -> Abort(s)
    IN  PrintOperands(s1, i.operands)

PrintDataProcessingOneSource(s, i) ==
    IF ~Holds(i, <<"Register", "Register">>) THEN Throw(s)
    ELSE
    LET rd == i.operands[1]
        rn == i.operands[2]
        Two(m) == Chain(s, <<L(m), O(rd), L(", "), O(rn)>>)
        One(m) == Chain(s, <<L(m), O(rd)>>)
        Pac(m, z) == IF rn.name = kXzr THEN One(z) ELSE Two(m)
    IN  CASE i.opcode = "kRbit" -> Two("rbit ")
          [] i.opcode = "kRev16" -> Two("rev16 ")
          [] i.opcode = "kRev32" -> Two("rev32 ")
          [] i.opcode = "kRev" -> Two("rev ")
          [] i.opcode = "kClz" -> Two("clz ")
          [] i.opcode = "kCls" -> Two("cls ")
          [] i.opcode = "kPacia" -> Pac("pacia ", "paciza ")
          [] i.opcode = "kPacib" -> Pac("pacib ", "pacizb ")
          [] i.opcode = "kPacda" -> Pac("pacda ", "pacdza ")
          [] i.opcode = "kPacdb" -> Pac("pacdb ", "pacdzb ")
          [] i.opcode = "kAutia" -> Pac("autia ", "autiza ")
          [] i.opcode = "kAutib" -> Pac("autib ", "autizb ")
          [] i.opcode = "kAutda" -> Pac("autda ", "autdza ")
          [] i.opcode = "kAutdb" -> Pac("autda ", "autdzb ")
          [] i.opcode = "kXpaci" -> One("xpaci ")
          [] i.opcode = "kXpacd" -> One("xpacd ")
          [] OTHER -> Abort(s)

PrintLogicalShiftedRegister(s, i) ==
    LET s1 == CASE i.opcode = "kAndShiftedRegister" ->
                     Put(s, IF i.set_flags THEN "ands " ELSE "and ")
                [] i.opcode = "kBicShiftedRegister" ->
                     Put(s, IF i.set_flags THEN "bics " ELSE "bic ")
                [] i.opcode = "kOrrShiftedRegister" -> Put(s, "orr ")
                [] i.opcode = "kOrnShiftedRegister" -> Put(s, "orn ")
                [] i.opcode = "kEorShiftedRegister" -> Put(s, "eor ")
                [] i.opcode = "kEonShiftedRegister" -> Put(s, "eon ")
                [] OTHER -> Abort(s)
    IN  PrintOperands(s1, i.operands)

PrintAddSubtractShiftedRegister(s, i) ==
    IF ~Holds(i, <<"Register", "Register", "Register", "Shift">>) THEN Throw(s)
    ELSE
    LET rd == i.operands[1]
        rn == i.operands[2]
        rm == i.operands[3]
        shift == i.operands[4]
        Two(m, a) == Chain(s, <<L(m), O(a), L(", "), O(rm), O(shift)>>)
        Three(m) == Chain(s, <<L(m), O(rd), L(", "), O(rn), L(", "), O(rm), O(shift)>>)
    IN  IF i.opcode = "kSubShiftedRegister"
        THEN IF i.set_flags
             THEN IF rd.name = kXzr THEN Two("cmp ", rn)
                  ELSE IF rn.name = kXzr THEN Two("negs ", rd)
                  ELSE Three("subs ")
             ELSE IF rn.name = kXzr THEN Two("neg ", rd)
                  ELSE Three("sub ")
        ELSE IF i.set_flags
             THEN IF rd.name = kXzr THEN Two("cmn ", rn)
                  ELSE Three("adds ")
             ELSE Three("add ")

PrintAddSubtractExtendedRegister(s, i) ==
    IF ~Holds(i, <<"Register", "Register", "Register", "Extend">>) THEN Throw(s)
    ELSE
    LET rd == i.operands[1]
        rn == i.operands[2]
        rm == i.operands[3]
        extend == i.operands[4]
        Two(m) == Chain(s, <<L(m), O(rn), L(", "), O(rm), O(extend)>>)
        Three(m) == Chain(s, <<L(m), O(rd), L(", "), O(rn), L(", "), O(rm), O(extend)>>)
    IN  IF i.opcode = "kSubExtendedRegister"
        THEN IF i.set_flags
             THEN IF rd.name = kXzr THEN Two("cmp ") ELSE Three("subs ")
             ELSE Three("sub ")
        ELSE IF i.set_flags
             THEN IF rd.name = kXzr THEN Two("cmn ") ELSE Three("adds ")
             ELSE Three("add ")

PrintAddSubtractWithCarry(s, i) ==
    IF ~Holds(i, <<"Register", "Register", "Register">>) THEN Throw(s)
    ELSE
    LET rd == i.operands[1]
        rn == i.operands[2]
        rm == i.operands[3]
        Two(m) == Chain(s, <<L(m), O(rd), L(", "), O(rm)>>)
        Three(m) == Chain(s, <<L(m), O(rd), L(", "), O(rn), L(", "), O(rm)>>)
    IN  IF i.opcode = "kSbc"
        THEN IF i.set_flags
             THEN IF rn.name = kXzr THEN Two("ngcs ") ELSE Three("sbcs ")
             ELSE IF rn.name = kXzr THEN Two("ngc ") ELSE Three("sbc ")
        ELSE IF i.set_flags THEN Three("adcs ") ELSE Three("adc ")

PrintConditionalCompare(s, i) ==
    LET s1 == Put(s, IF i.opcode = "kCcmn" THEN "ccmn " ELSE "ccmp ")
    IN  PrintConditionCode(Put(PrintOperands(s1, i.operands), ", "), i.cc)

PrintDataProcessingThreeSource(s, i) ==
    IF ~Holds(i, <<"Register", "Register", "Register", "Register">>) THEN Throw(s)
    ELSE
    LET rd == i.operands[1]
        rn == i.operands[2]
        rm == i.operands[3]
        ra == i.operands[4]
        Three(m) == Chain(s, <<L(m), O(rd), L(", "), O(rn), L(", "), O(rm)>>)
        Four(m) == Chain(s, <<L(m), O(rd), L(", "), O(rn), L(", "), O(rm), L(", "), O(ra)>>)
        Mul(m, a) == IF ra.name = kXzr THEN Three(a) ELSE Four(m)
    IN  CASE i.opcode = "kMadd" -> Mul("madd ", "mul ")
          [] i.opcode = "kMsub" -> Mul("msub ", "mneg ")
          [] i.opcode = "kSmaddl" -> Mul("smaddl ", "smull ")
          [] i.opcode = "kSmsubl" -> Mul("smsubl ", "smnegl ")
          [] i.opcode = "kSmulh" -> Three("smulh ")
          [] i.opcode = "kUmaddl" -> Mul("umaddl ", "umull ")
          [] i.opcode = "kUmsubl" -> Mul("umsubl ", "umnegl ")
          [] i.opcode = "kUmulh" -> Three("umulh ")
          [] OTHER -> Abort(s)

-----------------------------------------------------------------------------
(* Dispatch *)

\* operator<<(std::ostream&, Instruction)
PrintInstruction(s, i) ==
    IF Le(i.opcode, "kAdrp")
    THEN PrintPcRelativeAddressing(Enter(s, "PrintPcRelativeAddressing"), i)
    ELSE IF Le(i.opcode, "kSubImmediate")
    THEN PrintAddSubtractImmediate(Enter(s, "PrintAddSubtractImmediate"), i)
    ELSE IF Le(i.opcode, "kEorImmediate")
    THEN PrintLogicalImmediate(Enter(s, "PrintLogicalImmediate"), i)
    ELSE IF Le(i.opcode, "kMovz")
    THEN PrintMoveWideImmediate(Enter(s, "PrintMoveWideImmediate"), i)
    ELSE IF Le(i.opcode, "kUbfm")
    THEN PrintBitfield(Enter(s, "PrintBitfield"), i)
    ELSE IF Le(i.opcode, "kExtr")
    THEN PrintExtract(Enter(s, "PrintExtract"), i)
    ELSE IF Le(i.opcode, "kBCond")
    THEN PrintConditionalBranch(Enter(s, "PrintConditionalBranch"), i)
    ELSE IF Le(i.opcode, "kSvc")
    THEN PrintExceptionGeneration(Enter(s, "PrintExceptionGeneration"), i)
    ELSE IF Le(i.opcode, "kYield")
    THEN PrintSystem(Enter(s, "PrintSystem"), i)
    ELSE IF Le(i.opcode, "kRetabz")
    THEN PrintBranchRegister(Enter(s, "PrintBranchRegister"), i)
    ELSE IF Le(i.opcode, "kBl")
    THEN PrintBranchImmediate(Enter(s, "PrintBranchImmediate"), i)
    ELSE IF Le(i.opcode, "kCbz")
    THEN PrintCompareAndBranch(Enter(s, "PrintCompareAndBranch"), i)
    ELSE IF Le(i.opcode, "kTbz")
    THEN PrintTestAndBranch(Enter(s, "PrintTestAndBranch"), i)
    ELSE IF Le(i.opcode, "kStxr")
    THEN PrintLoadStoreExclusive(Enter(s, "PrintLoadStoreExclusive"), i)
    ELSE IF Le(i.opcode, "kPrfmLiteral")
    THEN PrintLoadLiteral(Enter(s, "PrintLoadLiteral"), i)
    ELSE IF Le(i.opcode, "kStp")
    THEN PrintLoadStorePair(Enter(s, "PrintLoadStorePair"), i)
    ELSE IF Le(i.opcode, "kStur")
    THEN PrintLoadStore(Enter(s, "PrintLoadStore"), i)
    ELSE IF Le(i.opcode, "kUdiv")
    THEN PrintDataProcessingTwoSource(Enter(s, "PrintDataProcessingTwoSource"), i)
    ELSE IF Le(i.opcode, "kXpaci")
    THEN PrintDataProcessingOneSource(Enter(s, "PrintDataProcessingOneSource"), i)
    ELSE IF Le(i.opcode, "kEonShiftedRegister")
    THEN PrintLogicalShiftedRegister(Enter(s, "PrintLogicalShiftedRegister"), i)
    ELSE IF Le(i.opcode, "kSubShiftedRegister")
    THEN PrintAddSubtractShiftedRegister(Enter(s, "PrintAddSubtractShiftedRegister"), i)
    ELSE IF Le(i.opcode, "kSubExtendedRegister")
    THEN PrintAddSubtractExtendedRegister(Enter(s, "PrintAddSubtractExtendedRegister"), i)
    ELSE IF Le(i.opcode, "kSbc")
    THEN PrintAddSubtractWithCarry(Enter(s, "PrintAddSubtractWithCarry"), i)
    ELSE IF Le(i.opcode, "kCcmp")
    THEN PrintConditionalCompare(Enter(s, "PrintConditionalCompare"), i)
    ELSE IF Le(i.opcode, "kCsneg")
    THEN PrintConditionalSelect(Enter(s, "PrintConditionalSelect"), i)
    ELSE IF Le(i.opcode, "kUmsubl")
    THEN PrintDataProcessingThreeSource(Enter(s, "PrintDataProcessingThreeSource"), i)
    ELSE Put(s, "<unsupported_insn>")

\* One insertion into the stream.
Insert(s, x) ==
    CASE x.ins = "lit" -> Put(s, x.str)
      [] x.ins = "opnd" -> PrintOperand(s, x.opnd)
      [] x.ins = "u64" -> PutU64(s, x.v)
      [] x.ins = "dec" -> SetBase(s, "dec")
      [] x.ins = "insn" -> PrintInstruction(s, x.insn)

Chain(s, xs) == IF xs = <<>> THEN s ELSE Chain(Insert(s, Head(xs)), Tail(xs))

-----------------------------------------------------------------------------
(* The instructions printed *)

X(n) == Register(64, n)
W(n) == Register(32, n)
R(size, n) == Register(size, n)

NoShift == Shift("kNone", 0)

AddSubImmediateInsns ==
    { Instruction(op, <<X(rd), X(rn), Immediate(64, U64(v)), NoShift>>, sf, 0) :
        op \in {"kAddImmediate", "kSubImmediate"},
        rd \in {kX0 + 10, kXzr, kSp},
        rn \in {kX0 + 11, kSp},
        v \in {0, 16},
        sf \in BOOLEAN }
    \cup
    { Instruction(op, <<W(kX0 + 12), W(kX0 + 1), Immediate(32, U64(1)), Shift("kLsl", 12)>>,
                  FALSE, 0) :
        op \in {"kAddImmediate", "kSubImmediate"} }

LogicalImmediateInsns ==
    { Instruction("kAndImmediate", <<X(rd), X(rn), Immediate(64, U64(255))>>, sf, 0) :
        rd \in {kX0, kXzr, kSp}, rn \in {kX0 + 10, kXzr}, sf \in BOOLEAN }
    \cup
    { Instruction(op, <<W(rd), W(rn), Immediate(32, U64(255))>>, FALSE, 0) :
        op \in {"kOrrImmediate", "kEorImmediate"},
        rd \in {kX0, kXzr}, rn \in {kX0 + 10, kXzr} }

MoveWideInsns ==
    { Instruction(op, <<R(rsize, kX0 + 10), Immediate(isize, U64(4660)), Shift("kLsl", 0)>>,
                  FALSE, 0) :
        op \in {"kMovk", "kMovn", "kMovz"},
        rsize \in {32, 64},
        isize \in {16, 32, 64} }
    \cup
    { Instruction(op, <<R(size, kX0), Immediate(size, U64(4660)), Shift("kLsl", c)>>,
                  FALSE, 0) :
        op \in {"kMovk", "kMovn", "kMovz"},
        size \in {32, 64},
        c \in {16} }
    \cup
    { Instruction(op, <<X(kX0), Immediate(64, U64(4660)), Shift("kLsl", 48)>>, FALSE, 0) :
        op \in {"kMovk", "kMovn", "kMovz"} }

BitfieldValues(size) == IF size = 32 THEN {0, 7, 8, 31} ELSE {0, 31, 32, 63}

BitfieldInsns ==
    UNION { { Instruction(op, <<R(size, kX0), R(size, kX0 + 10),
                                Immediate(size, U64(immr)), Immediate(size, U64(imms))>>,
                          FALSE, 0) :
                op \in {"kSbfm", "kUbfm"},
                immr \in BitfieldValues(size),
                imms \in BitfieldValues(size) } :
            size \in {32, 64} }
    \cup
    { Instruction("kBfm", <<X(kX0), X(rn),
                            Immediate(64, U64(immr)), Immediate(64, U64(imms))>>, FALSE, 0) :
        rn \in {kX0 + 10, kXzr}, immr \in {0, 32}, imms \in {7, 63} }

BranchOffsets(size) ==
    {v \in {U64(16), 4..7, 4..15, 4..31, 4..63} : v \subseteq 0..(size - 1)}

BranchImmediateInsns ==
    UNION { { Instruction("kB", <<Immediate(size, v)>>, FALSE, 0) :
                v \in BranchOffsets(size) } :
            size \in {8, 16, 32, 64} }
    \cup
    { Instruction("kBl", <<Immediate(32, v)>>, FALSE, 0) : v \in {U64(16), 4..31} }

ConditionalSelectInsns ==
    { Instruction(op, <<X(kX0), X(r[1]), X(r[2])>>, FALSE, 0) :
        op \in {"kCsel", "kCsinv", "kCsneg"},
        r \in {<<kX0 + 1, kX0 + 10>>, <<kX0 + 10, kX0 + 10>>, <<kXzr, kXzr>>} }
    \cup
    { Instruction("kCsinc", <<X(kX0), X(rn), X(rm)>>, FALSE, cc) :
        rn \in {kX0 + 1, kX0 + 10, kXzr},
        rm \in {kX0 + 1, kX0 + 10, kXzr},
        cc \in {0, 11} }

-----------------------------------------------------------------------------
(* The sink and the calls made on it *)

Init ==
    /\ basefield = "dec"
    /\ fmt0 = "dec"
    /\ insn = NoInsn
    /\ text = ""
    /\ status = "ok"
    /\ handlers = <<>>
    /\ again = FALSE
    /\ prevText = ""
    /\ nprints = 0
    /\ shiftUB \in {"wrap", "zero"}

\* stream << insn : one call of operator<<(std::ostream&, Instruction)
Call(i) ==
    LET s == Chain(NewStream(basefield), <<I(i)>>)
        rep == nprints > 0 /\ i = insn
    IN  /\ status # "abort"
        /\ nprints < MaxPrints
        /\ insn' = i
        /\ text' = s.text
        /\ basefield' = s.basefield
        /\ fmt0' = basefield
        /\ status' = s.status
        /\ handlers' = s.calls
        /\ again' = rep
        /\ prevText' = IF rep THEN text ELSE ""
        /\ nprints' = nprints + 1
        /\ UNCHANGED shiftUB

PrintAddSub == \E i \in AddSubImmediateInsns : Call(i)
PrintLogical == \E i \in LogicalImmediateInsns : Call(i)
PrintMoveWide == \E i \in MoveWideInsns : Call(i)
PrintBitfieldInsn == \E i \in BitfieldInsns : Call(i)
PrintBranch == \E i \in BranchImmediateInsns : Call(i)
PrintCondSelect == \E i \in ConditionalSelectInsns : Call(i)

\* The caller starts on a newly constructed stream.
FreshSink ==
    /\ status # "abort"
    /\ nprints > 0
    /\ basefield' = "dec"
    /\ fmt0' = "dec"
    /\ insn' = NoInsn
    /\ text' = ""
    /\ status' = "ok"
    /\ handlers' = <<>>
    /\ again' = FALSE
    /\ prevText' = ""
    /\ nprints' = 0
    /\ UNCHANGED shiftUB

Next ==
    \/ PrintAddSub
    \/ PrintLogical
    \/ PrintMoveWide
    \/ PrintBitfieldInsn
    \/ PrintBranch
    \/ PrintCondSelect
    \/ FreshSink

Spec == Init /\ [][Next]_vars

-----------------------------------------------------------------------------
(* A caller that prints every Instruction on a sink of its own.  The sink  *)
(* it hands over may be in either base.                                    *)

Mem(base, off, wb, post, size) ==
    ImmediateOffset(X(base), Immediate(64, off), NoShift, wb, post, size)

LoadStoreInsns ==
    { Instruction(op, <<X(kX0 + 1), Mem(base, off, wb, post, 64)>>, FALSE, 0) :
        op \in {"kLdr", "kStr"},
        base \in {kX0, kX0 + 10, kSp},
        off \in {{}, U64(16), 4..63},
        wb \in BOOLEAN,
        post \in BOOLEAN }
    \cup
    { Instruction("kLdr", <<X(kX0 + 1),
                            RegisterOffset(X(kX0), X(kX0 + 2), Extend(t, c), wb, post, 64)>>,
                  FALSE, 0) :
        t \in {"kNone", "kLsl", "kSxtw"}, c \in {0, 3},
        wb \in BOOLEAN, post \in BOOLEAN }
    \cup
    { Instruction("kLdrs", <<X(kX0 + 1),
                             ImmediateOffset(X(kX0), Immediate(32, U64(v)),
                                             Shift("kLsl", 2), wb, post, size)>>,
                  FALSE, 0) :
        v \in {0, 4}, wb \in BOOLEAN, post \in BOOLEAN, size \in {8, 16, 32} }

ShiftTypes == {"kNone", "kLsl", "kLsr", "kAsr", "kRor"}
ExtendTypes ==
    {"kNone", "kUxtb", "kUxth", "kUxtw", "kUxtx", "kLsl", "kSxtb", "kSxth", "kSxtw", "kSxtx"}

ShiftedRegisterInsns ==
    { Instruction(op, <<X(kX0 + 1), X(kX0 + 2), X(kX0 + 10), Shift(t, c)>>, FALSE, 0) :
        op \in {"kAddShiftedRegister", "kSubShiftedRegister"},
        t \in ShiftTypes,
        c \in {0, 3, 17, 63} }

ExtendedRegisterInsns ==
    { Instruction(op, <<X(kX0 + 1), X(kX0 + 2), X(kX0 + 10), Extend(t, c)>>, FALSE, 0) :
        op \in {"kAddExtendedRegister", "kSubExtendedRegister"},
        t \in ExtendTypes,
        c \in {0, 1, 4} }

\* Operands of each kind, to put where a handler expects another kind.
OperandSamples ==
    { X(kX0 + 3), Immediate(64, U64(16)), Shift("kLsl", 12), Extend("kUxtw", 2),
      Mem(kX0, U64(16), FALSE, FALSE, 64) }

AddSubtractImmediateKinds == <<"Register", "Register", "Immediate", "Shift">>

\* Add/sub immediate instructions with one operand of another kind than
\* PrintAddSubtractImmediate reads at its position.
MismatchInsns ==
    { i \in { Instruction(op,
                          [k \in 1..4 |->
                              IF k = p THEN o
                              ELSE <<X(kX0 + 1), X(kX0 + 2),
                                     Immediate(64, U64(16)), NoShift>>[k]],
                          FALSE, 0) :
                 op \in {"kAddImmediate", "kSubImmediate"},
                 p \in 1..4,
                 o \in OperandSamples } :
        ~Holds(i, AddSubtractImmediateKinds) }

\* The opcodes after kYield up to kRetabz, which the dispatch gives to
\* PrintBranchRegister.
BranchRegisterOpcodes ==
    { OpcodeOrder[k] : k \in (Ord["kYield"] + 1)..Ord["kRetabz"] }

BranchRegisterInsns ==
    { Instruction(op, <<X(rn), X(kSp)>>, FALSE, 0) :
        op \in BranchRegisterOpcodes,
        rn \in {kX0 + 3, kX0 + 30} }

\* prfop values: two named ones, and two reserved ones (type 3, target 3).
PrefetchOps == {0, 1, 5, 17, 24, 6}

LoadLiteralInsns ==
    { Instruction(op, <<R(size, kX0 + 1), Mem(kPc, U64(off), FALSE, FALSE, size)>>, FALSE, 0) :
        op \in {"kLdrLiteral", "kLdrsLiteral"},
        size \in {32, 64},
        off \in {16, 64} }
    \cup
    { Instruction("kPrfmLiteral",
                  <<Immediate(8, U64(prfop)), Mem(kPc, U64(off), FALSE, FALSE, 64)>>,
                  FALSE, 0) :
        prfop \in PrefetchOps,
        off \in {16, 64} }

ConditionalBranchInsns ==
    { Instruction("kBCond", <<Immediate(64, U64(off))>>, FALSE, cc) :
        off \in {16, 64},
        cc \in 0..15 }

\* The opcodes from `first` to `last` of enum Opcode.
Range(first, last) == { OpcodeOrder[k] : k \in Ord[first]..Ord[last] }

Imm(v) == Immediate(64, U64(v))
Lit == Mem(kPc, U64(16), FALSE, FALSE, 64)
Addr == Mem(kX0, U64(16), FALSE, FALSE, 64)

\* For every opcode, operands of the kinds its handler reads.
DispatchFamilies ==
    { [opcodes |-> Range("kAdr", "kAdrp"), operands |-> <<X(1), Imm(16), NoShift>>],
      [opcodes |-> Range("kAddImmediate", "kSubImmediate"),
       operands |-> <<X(1), X(2), Imm(16), NoShift>>],
      [opcodes |-> Range("kAndImmediate", "kEorImmediate"),
       operands |-> <<X(1), X(2), Imm(16)>>],
      [opcodes |-> Range("kMovk", "kMovz"), operands |-> <<X(1), Imm(16), Shift("kLsl", 0)>>],
      [opcodes |-> Range("kBfm", "kUbfm"), operands |-> <<X(1), X(2), Imm(1), Imm(2)>>],
      [opcodes |-> {"kExtr"}, operands |-> <<X(1), X(2), X(3), Imm(4)>>],
      [opcodes |-> {"kBCond"}, operands |-> <<Imm(16)>>],
      [opcodes |-> Range("kBrk", "kSvc"), operands |-> <<Imm(1)>>],
      [opcodes |-> Range("kAutia1716", "kYield") \
                       {"kDmb", "kDsb", "kHint", "kIsb", "kMrs", "kMsr", "kSys", "kSysl"},
       operands |-> <<>>],
      [opcodes |-> {"kDmb", "kDsb", "kHint", "kIsb"}, operands |-> <<Imm(9)>>],
      [opcodes |-> {"kMrs"},
       operands |-> <<X(1), SystemRegister("kUnknown", 3, 0, 1, 0, 0)>>],
      [opcodes |-> {"kMsr"},
       operands |-> <<SystemRegister("kUnknown", 3, 0, 1, 0, 0), X(1)>>],
      [opcodes |-> {"kSys"}, operands |-> <<Imm(0), Imm(7), Imm(5), Imm(0), X(1)>>],
      [opcodes |-> {"kSysl"}, operands |-> <<X(1), Imm(0), Imm(7), Imm(5), Imm(0)>>],
      [opcodes |-> Range("kBlr", "kRetabz"), operands |-> <<X(3), X(kSp)>>],
      [opcodes |-> Range("kB", "kBl"), operands |-> <<Imm(16)>>],
      [opcodes |-> Range("kCbnz", "kCbz"), operands |-> <<X(1), Imm(16)>>],
      [opcodes |-> Range("kTbnz", "kTbz"), operands |-> <<X(1), Imm(3), Imm(16)>>],
      [opcodes |-> {"kLdar", "kLdaxr", "kLdlar", "kLdxr", "kStllr", "kStlr"},
       operands |-> <<X(1), Addr>>],
      [opcodes |-> {"kLdaxp", "kLdxp"}, operands |-> <<X(1), X(2), Addr>>],
      [opcodes |-> {"kStlxr", "kStxr"}, operands |-> <<W(0), X(1), Addr>>],
      [opcodes |-> {"kStlxp", "kStxp"}, operands |-> <<W(0), X(1), X(2), Addr>>],
      [opcodes |-> {"kLdrLiteral", "kLdrsLiteral"}, operands |-> <<X(1), Lit>>],
      [opcodes |-> {"kPrfmLiteral"}, operands |-> <<Immediate(8, U64(1)), Lit>>],
      [opcodes |-> Range("kLdnp", "kStp"), operands |-> <<X(1), X(2), Addr>>],
      [opcodes |-> Range("kLdr", "kStur") \ {"kPrfm"}, operands |-> <<X(1), Addr>>],
      [opcodes |-> {"kPrfm"}, operands |-> <<Immediate(8, U64(1)), Addr>>],
      [opcodes |-> Range("kAsr", "kUdiv"), operands |-> <<X(1), X(2), X(3)>>],
      [opcodes |-> Range("kAutda", "kXpaci"), operands |-> <<X(1), X(2)>>],
      [opcodes |-> Range("kAndShiftedRegister", "kSubShiftedRegister"),
       operands |-> <<X(1), X(2), X(3), Shift("kLsl", 3)>>],
      [opcodes |-> Range("kAddExtendedRegister", "kSubExtendedRegister"),
       operands |-> <<X(1), X(2), W(3), Extend("kUxtw", 2)>>],
      [opcodes |-> Range("kAdc", "kSbc"), operands |-> <<X(1), X(2), X(3)>>],
      [opcodes |-> Range("kCcmn", "kCcmp"), operands |-> <<X(1), X(2), Imm(4)>>],
      [opcodes |-> Range("kCsel", "kCsneg"), operands |-> <<X(1), X(2), X(3)>>],
      [opcodes |-> Range("kMadd", "kUmsubl"), operands |-> <<X(1), X(2), X(3), X(4)>>],
      [opcodes |-> {"kUmulh"}, operands |-> <<X(1), X(2), X(3)>>] }

\* One Instruction of every opcode.
DispatchInsns ==
    UNION { { Instruction(op, f.operands, FALSE, 0) : op \in f.opcodes } :
            f \in DispatchFamilies }

\* dsb and dmb with every value of the 4-bit CRm field.
BarrierInsns ==
    { Instruction(op, <<Imm(option)>>, FALSE, 0) :
        op \in {"kDsb", "kDmb"},
        option \in 0..15 }

PointerAuthOpcodes ==
    {"kPacia", "kPacib", "kPacda", "kPacdb", "kAutia", "kAutib", "kAutda", "kAutdb"}

PointerAuthInsns ==
    { Instruction(op, <<X(rd), X(rn)>>, FALSE, 0) :
        op \in PointerAuthOpcodes,
        rd \in {kX0 + 1, kX0 + 10},
        rn \in {kX0 + 2, kXzr, kSp} }

\* Every immr and imms of the 32-bit forms, and the corners of the 64-bit ones.
FieldValues(size) == IF size = 32 THEN 0..31 ELSE {0, 1, 31, 32, 62, 63}

BitfieldRangeInsns ==
    UNION { { Instruction(op, <<R(size, kX0 + 1), R(size, kX0 + 2),
                                Immediate(size, U64(immr)), Immediate(size, U64(imms))>>,
                          FALSE, 0) :
                op \in {"kBfm", "kSbfm", "kUbfm"},
                immr \in FieldValues(size),
                imms \in FieldValues(size) } :
            size \in {32, 64} }
    \cup
    { Instruction("kBfm", <<X(kX0 + 1), X(kXzr),
                            Immediate(64, U64(immr)), Immediate(64, U64(imms))>>, FALSE, 0) :
        immr \in FieldValues(64),
        imms \in FieldValues(64) }

InitOnce ==
    /\ basefield \in {"dec", "hex"}
    /\ fmt0 = basefield
    /\ insn = NoInsn
    /\ text = ""
    /\ status = "ok"
    /\ handlers = <<>>
    /\ again = FALSE
    /\ prevText = ""
    /\ nprints = 0
    /\ shiftUB \in {"wrap", "zero"}

\* stream << insn on a sink nothing was printed on
PrintOnce(i) == nprints = 0 /\ Call(i)

OnceLoadStore == \E i \in LoadStoreInsns : PrintOnce(i)
OnceShiftedRegister == \E i \in ShiftedRegisterInsns : PrintOnce(i)
OnceExtendedRegister == \E i \in ExtendedRegisterInsns : PrintOnce(i)
OnceMismatch == \E i \in MismatchInsns : PrintOnce(i)
OnceBranchRegister == \E i \in BranchRegisterInsns : PrintOnce(i)
OnceLoadLiteral == \E i \in LoadLiteralInsns : PrintOnce(i)
OnceConditionalBranch == \E i \in ConditionalBranchInsns : PrintOnce(i)
OnceDispatch == \E i \in DispatchInsns : PrintOnce(i)
OnceBarrier == \E i \in BarrierInsns : PrintOnce(i)
OncePointerAuth == \E i \in PointerAuthInsns : PrintOnce(i)
OnceBitfield == \E i \in BitfieldRangeInsns : PrintOnce(i)

\* The caller takes the next sink.
NextSink ==
    /\ status # "abort"
    /\ nprints > 0
    /\ basefield' \in {"dec", "hex"}
    /\ fmt0' = basefield'
    /\ insn' = NoInsn
    /\ text' = ""
    /\ status' = "ok"
    /\ handlers' = <<>>
    /\ again' = FALSE
    /\ prevText' = ""
    /\ nprints' = 0
    /\ UNCHANGED shiftUB

NextOnce ==
    \/ OnceLoadStore
    \/ OnceShiftedRegister
    \/ OnceExtendedRegister
    \/ OnceMismatch
    \/ OnceBranchRegister
    \/ OnceLoadLiteral
    \/ OnceConditionalBranch
    \/ OnceDispatch
    \/ OnceBarrier
    \/ OncePointerAuth
    \/ OnceBitfield
    \/ NextSink

SpecOnce == InitOnce /\ [][NextOnce]_vars

TypeOK ==
    /\ basefield \in {"dec", "hex"}
    /\ fmt0 \in {"dec", "hex"}
    /\ status \in {"ok", "abort", "bad_variant_access"}
    /\ handlers \in Seq(STRING)
    /\ again \in BOOLEAN
    /\ shiftUB \in {"wrap", "zero"}
    /\ nprints \in 0..MaxPrints


-----------------------------------------------------------------------------
(* Properties *)

StartsWith(t, p) == Len(t) >= Len(p) /\ SubSeq(t, 1, Len(p)) = p

\* The text a sequence of insertions yields on the sink as the last call found it.
Text(xs) == Chain(NewStream(fmt0), xs).text

\* The text an Instruction yields when it is printed alone on a new stream.
Alone(i) == Chain(NewStream("dec"), <<I(i)>>).text

Printed == insn # NoInsn

rd_ == insn.operands[1]
rn_ == insn.operands[2]

\* C1: printing the same Instruction twice in a row on the same sink yields
\* the same text both times.
C1_SameTextTwice == again => text = prevText

\* C2: the text appended for an Instruction is the text it yields when printed
\* alone on a new sink, whatever was printed on the sink before.
C2_NoRetainedState == Printed => text = Alone(insn)

\* Two's-complement negation of v within `size` bits.
NegWithin(v, size) == Inc64(Not64(v)) \cap 0..(size - 1)

\* C3: a signed immediate prints as #-0x<m> exactly when bit size-1 of value is
\* set, m being the negation of value within size bits, and as #0x<value>
\* otherwise (here for the offset of b and bl).
C3_SignedBySize ==
    insn.opcode \in {"kB", "kBl"} =>
        LET imm == insn.operands[1]
            mn == IF insn.opcode = "kBl" THEN "bl " ELSE "b "
        IN  text = IF (imm.size - 1) \in imm.value
                   THEN mn \o "#-0x" \o HexStr(NegWithin(imm.value, imm.size))
                   ELSE mn \o "#0x" \o HexStr(imm.value)

IsAddSub == insn.opcode \in {"kAddImmediate", "kSubImmediate"}

\* C4: add/sub immediate prints `mov rd, rn` exactly when imm = 0, set_flags is
\* false and rd or rn is SP; otherwise it prints add/sub[s] or cmp/cmn.
C4_MovAlias ==
    IsAddSub =>
        LET isMov == /\ insn.operands[3].value = {}
                     /\ ~insn.set_flags
                     /\ (rd_.name = kSp \/ rn_.name = kSp)
        IN  /\ StartsWith(text, "mov ") <=> isMov
            /\ isMov => text = Text(<<L("mov "), O(rd_), L(", "), O(rn_)>>)
            /\ ~isMov => \E m \in {"add ", "adds ", "sub ", "subs ", "cmp ", "cmn "} :
                            StartsWith(text, m)

\* C5: add/sub immediate prints cmp (SUB) or cmn (ADD) exactly when set_flags is
\* true and rd is XZR; without set_flags it never prints cmp or cmn; a
\* flag-setting instruction that is not aliased prints adds or subs.
C5_CompareAlias ==
    IsAddSub =>
        LET cmp == IF insn.opcode = "kSubImmediate" THEN "cmp " ELSE "cmn "
            isCmp == insn.set_flags /\ rd_.name = kXzr
        IN  /\ StartsWith(text, cmp) <=> isCmp
            /\ ~StartsWith(text, IF cmp = "cmp " THEN "cmn " ELSE "cmp ")
            /\ (insn.set_flags /\ ~isCmp /\ ~StartsWith(text, "mov ")) =>
                   StartsWith(text, IF insn.opcode = "kSubImmediate" THEN "subs " ELSE "adds ")

\* C6: SBFM prints asr, and UBFM prints lsr, exactly when imms = size - 1.
C6_ShiftRightAlias ==
    insn.opcode \in {"kSbfm", "kUbfm"} =>
        LET imms == insn.operands[4]
            alias == IF insn.opcode = "kSbfm" THEN "asr " ELSE "lsr "
        IN  StartsWith(text, alias) <=> imms.value = U64(imms.size - 1)

\* C7: every UBFM with imms + 1 = immr prints `lsl rd, rn, #(size - immr)`.
C7_LslAlias ==
    (insn.opcode = "kUbfm" /\ Add64(insn.operands[4].value, U64(1)) = insn.operands[3].value) =>
        text = Text(<<L("lsl "), O(rd_), L(", "), O(rn_), L(", #"),
                      N(Sub64(U64(insn.operands[3].size), insn.operands[3].value))>>)

cc_ == static_condition_codes[insn.cc + 1]

\* C8: CSINC prints `cset rd, cc` when rn and rm are both XZR, `cinc rd, rn, cc`
\* when rn = rm and they are not XZR, and `csinc rd, rn, rm, cc` for every other
\* pair of registers.
C8_CsincAliases ==
    insn.opcode = "kCsinc" =>
        LET rm == insn.operands[3]
        IN  text =
              IF rn_.name = kXzr /\ rm.name = kXzr
              THEN Text(<<L("cset "), O(rd_), L(", "), L(cc_)>>)
              ELSE IF rn_.name = rm.name
              THEN Text(<<L("cinc "), O(rd_), L(", "), O(rn_), L(", "), L(cc_)>>)
              ELSE Text(<<L("csinc "), O(rd_), L(", "), O(rn_), L(", "), O(rm),
                          L(", "), L(cc_)>>)

\* C8 witness: a CSINC of one register that is not XZR was printed as cinc, on a
\* sink already switched to hexadecimal.
C8_Witness ==
    /\ insn.opcode = "kCsinc"
    /\ rn_.name = insn.operands[3].name
    /\ rn_.name = kX0 + 10
    /\ fmt0 = "hex"
    /\ StartsWith(text, "cinc x0, xa, ")

\* C9: MOVN prints `mov rd, #v`, v being ~(imm << shift.count) truncated to the
\* width of rd, with no shift suffix.
C9_MovnWidth ==
    insn.opcode = "kMovn" =>
        LET v == Not64(Shl64(insn.operands[2].value, insn.operands[3].count))
        IN  text = Text(<<L("mov "), O(rd_), L(", #0x")>>)
                     \o HexStr(v \cap 0..(rd_.size - 1))

\* C10: logical immediate prints `tst rn, imm` for ANDS with rd = XZR,
\* `mov rd, imm` for ORR with rn = XZR, and in every other case and/ands/orr/eor
\* with the operands rd, rn, imm.
C10_LogicalAliases ==
    insn.opcode \in {"kAndImmediate", "kOrrImmediate", "kEorImmediate"} =>
        LET imm == insn.operands[3]
        IN  text =
              IF insn.opcode = "kAndImmediate" /\ insn.set_flags /\ rd_.name = kXzr
              THEN Text(<<L("tst "), O(rn_), L(", "), O(imm)>>)
              ELSE IF insn.opcode = "kOrrImmediate" /\ rn_.name = kXzr
              THEN Text(<<L("mov "), O(rd_), L(", "), O(imm)>>)
              ELSE Text(<<L(CASE insn.opcode = "kAndImmediate" ->
                                   IF insn.set_flags THEN "ands " ELSE "and "
                              [] insn.opcode = "kOrrImmediate" -> "orr "
                              [] insn.opcode = "kEorImmediate" -> "eor "),
                          O(rd_), L(", "), O(rn_), L(", "), O(imm)>>)

-----------------------------------------------------------------------------
(* Properties of a single print (SpecOnce) *)

EndsWith(t, p) == Len(t) >= Len(p) /\ SubSeq(t, Len(t) - Len(p) + 1, Len(t)) = p

\* The ImmediateOffset of a load or store with a nonzero offset was printed.
mem_ == insn.operands[2]
NonzeroOffsetPrinted ==
    /\ insn.opcode \in {"kLdr", "kStr", "kLdrs"}
    /\ status = "ok"
    /\ mem_.kind = "ImmediateOffset"
    /\ mem_.offset.value # {}

\* The text of the base register and of the offset with its shift.
BaseText == Text(<<O(mem_.base)>>)
OffsetText == PrintShift(PrintSignedImmediate(NewStream(fmt0), mem_.offset), mem_.shift).text

\* C11: an ImmediateOffset with a nonzero offset prints `[base], offset`
\* whenever post_index is true, and otherwise `[base, offset]`, followed by `!`
\* exactly when writeback is true.
C11_OffsetForm ==
    NonzeroOffsetPrinted =>
        EndsWith(text,
                 IF mem_.post_index
                 THEN "[" \o BaseText \o "], " \o OffsetText
                 ELSE "[" \o BaseText \o ", " \o OffsetText \o "]"
                          \o (IF mem_.writeback THEN "!" ELSE ""))

\* C11 amended: an ImmediateOffset with a nonzero offset prints `[base], offset`
\* when writeback and post_index are both true, and otherwise `[base, offset]`,
\* followed by `!` exactly when writeback is true.
C11_OffsetFormBothFlags ==
    NonzeroOffsetPrinted =>
        EndsWith(text,
                 IF mem_.writeback /\ mem_.post_index
                 THEN "[" \o BaseText \o "], " \o OffsetText
                 ELSE "[" \o BaseText \o ", " \o OffsetText \o "]"
                          \o (IF mem_.writeback THEN "!" ELSE ""))

\* C11 witness: a post-indexed load with writeback was printed on a sink in
\* hexadecimal, the offset after the bracket.
C11_Witness ==
    /\ NonzeroOffsetPrinted
    /\ mem_.writeback /\ mem_.post_index
    /\ fmt0 = "hex"
    /\ text = "ldr x1, [xa], #0x10"

\* The text of the third register of an add/sub, which the suffix follows.
RmText == Text(<<O(insn.operands[3])>>)

ShiftName(type) ==
    CASE type = "kLsl" -> "lsl" [] type = "kLsr" -> "lsr"
      [] type = "kAsr" -> "asr" [] type = "kRor" -> "ror"

ExtendName(type) ==
    CASE type = "kUxtb" -> "uxtb" [] type = "kUxth" -> "uxth" [] type = "kUxtw" -> "uxtw"
      [] type = "kUxtx" -> "uxtx" [] type = "kLsl" -> "lsl" [] type = "kSxtb" -> "sxtb"
      [] type = "kSxth" -> "sxth" [] type = "kSxtw" -> "sxtw" [] type = "kSxtx" -> "sxtx"

\* The suffix of a Shift: nothing for None, otherwise `, <type> #0x<count>`.
ShiftSuffix(sh) ==
    IF sh.type = "kNone" THEN ""
    ELSE ", " \o ShiftName(sh.type) \o " #0x" \o NatStr(sh.count, 16)

\* The suffix of an Extend: nothing for None; otherwise the mnemonic, followed
\* by `, #<count>` when count is not 0.  lslAtZero says whether an Lsl extend
\* with count 0 prints its mnemonic.
ExtendSuffix(ex, lslAtZero) ==
    IF ex.type = "kNone" THEN ""
    ELSE IF ex.count = 0
    THEN (IF ex.type = "kLsl" /\ ~lslAtZero THEN "" ELSE ", " \o ExtendName(ex.type))
    ELSE ", " \o ExtendName(ex.type) \o ", #" \o NatStr(ex.count, 10)

SuffixPrinted ==
    /\ insn.opcode \in {"kAddShiftedRegister", "kSubShiftedRegister",
                        "kAddExtendedRegister", "kSubExtendedRegister"}
    /\ status = "ok"

\* C12: a Shift or Extend of type None prints nothing; an Lsl extend with count
\* 0 prints the lsl mnemonic and no amount; an extend with a nonzero count
\* prints `#count`; a shift of another type prints `, <lsl|lsr|asr|ror> #0x<count>`.
C12_Suffixes ==
    SuffixPrinted =>
        EndsWith(text,
                 ", " \o RmText \o
                 (IF insn.operands[4].kind = "Shift"
                  THEN ShiftSuffix(insn.operands[4])
                  ELSE ExtendSuffix(insn.operands[4], TRUE)))

\* C12 amended: as C12, but an Lsl extend with count 0 prints nothing.
C12_SuffixesLslOmitted ==
    SuffixPrinted =>
        EndsWith(text,
                 ", " \o RmText \o
                 (IF insn.operands[4].kind = "Shift"
                  THEN ShiftSuffix(insn.operands[4])
                  ELSE ExtendSuffix(insn.operands[4], FALSE)))

\* C12 witness: an add with an Lsl extend of count 0 was printed with no suffix.
C12_Witness ==
    /\ insn.opcode = "kAddExtendedRegister"
    /\ insn.operands[4] = Extend("kLsl", 0)
    /\ text = "add x1, x2, x10"

\* p occurs in t
Occurs(p, t) == \E k \in 1..(Len(t) - Len(p) + 1) : SubSeq(t, k, k + Len(p) - 1) = p

\* An add/sub immediate with an operand of an unexpected kind was printed.
MismatchPrinted ==
    /\ nprints > 0
    /\ insn.opcode \in {"kAddImmediate", "kSubImmediate"}
    /\ ~Holds(insn, AddSubtractImmediateKinds)

\* C13: a handler given an operand of another kind than it expects prints an
\* unsupported-construct marker in its place and goes on; the print call neither
\* aborts nor raises an error.
C13_MismatchMarked ==
    MismatchPrinted =>
        /\ status = "ok"
        /\ Occurs("<unsupported_", text)

\* The opcodes of the branch-register range for which PrintBranchRegister has
\* no case.
BranchRegisterUnmodelled == {"kRetaaz", "kRetabz"}

\* C14: an instruction whose opcode is inside a dispatched range but has no
\* case in the family's handler (kRetabz in PrintBranchRegister) is printed as
\* a sentinel token and the print call returns normally; the process does not
\* terminate.
C14_UnmodelledSentinel ==
    (nprints > 0 /\ insn.opcode \in BranchRegisterUnmodelled) =>
        /\ status = "ok"
        /\ Occurs("<unsupported_", text)

\* A line: the mnemonic, one space, the operands separated by a comma.
RECURSIVE CommaSeparated(_)
CommaSeparated(ops) ==
    IF Len(ops) = 1 THEN ops[1]
    ELSE ops[1] \o ", " \o CommaSeparated(Tail(ops))

Line(mnemonic, ops) == mnemonic \o " " \o CommaSeparated(ops)

\* The branch-register opcodes printed with their one register.
OneRegisterBranch ==
    [kBr |-> "br", kBraaz |-> "braaz", kBrabz |-> "brabz",
     kBlr |-> "blr", kBlraaz |-> "blraaz", kBlrabz |-> "blrabz"]

LoadLiteralMnemonic ==
    [kLdrLiteral |-> "ldr", kLdrsLiteral |-> "ldrsw", kPrfmLiteral |-> "prfm"]

\* The first operand of a load literal as text: the register, or the name of
\* the prefetch operation.
LiteralTarget ==
    IF insn.opcode = "kPrfmLiteral"
    THEN PrintPrefetchOp(NewStream(fmt0), U8(insn.operands[1].value)).text
    ELSE Text(<<O(insn.operands[1])>>)

LiteralLabel == PrintSignedImmediate(NewStream(fmt0), insn.operands[2].offset).text

\* C15: a line printed for an instruction with operands is the mnemonic, exactly
\* one space, and the operands separated by a comma, with no trailing whitespace
\* and no line terminator; in particular for kBrabz and for the prefetch form of
\* the load-literal family.
C15_LineShape ==
    /\ (nprints > 0 /\ status = "ok" /\ insn.opcode \in DOMAIN OneRegisterBranch) =>
           text = Line(OneRegisterBranch[insn.opcode], <<Text(<<O(insn.operands[1])>>)>>)
    /\ (nprints > 0 /\ status = "ok" /\ insn.opcode \in DOMAIN LoadLiteralMnemonic) =>
           text = Line(LoadLiteralMnemonic[insn.opcode], <<LiteralTarget, LiteralLabel>>)
    /\ (nprints > 0 /\ status = "ok" /\ text # "") =>
           ~EndsWith(text, " ") /\ ~EndsWith(text, "\n")

\* The condition name in the text `b.<name> <label>` of a conditional branch.
BranchLabel == PrintSignedImmediate(NewStream(fmt0), insn.operands[1]).text
ConditionPrinted == SubSeq(text, 3, Len(text) - Len(BranchLabel) - 1)

\* The name a condition code prints, on a stream of its own.
ConditionName(cc) == PrintConditionCode(NewStream("dec"), cc).text

BCondPrinted == nprints > 0 /\ status = "ok" /\ insn.opcode = "kBCond"

\* C16: each of the 16 condition codes prints one fixed name; 14 and 15 both
\* print `al`, and 0..13 print fourteen pairwise distinct names, none of them `al`.
C16_ConditionNames ==
    BCondPrinted =>
        /\ text = "b." \o ConditionPrinted \o " " \o BranchLabel
        /\ ConditionPrinted = ConditionName(insn.cc)
        /\ insn.cc \in {14, 15} => ConditionPrinted = "al"
        /\ insn.cc \in 0..13 =>
               /\ ConditionPrinted # "al"
               /\ \A cc \in 0..13 : cc # insn.cc => ConditionName(cc) # ConditionPrinted

\* C16 witness: a conditional branch with condition code 15 was printed with `al`.
C16_Witness ==
    /\ insn.opcode = "kBCond"
    /\ insn.cc = 15
    /\ text = "b.al #0x10"

\* The ordered boundaries of the dispatch, each with its handler.
Boundaries ==
    << <<"kAdrp", "PrintPcRelativeAddressing">>,
       <<"kSubImmediate", "PrintAddSubtractImmediate">>,
       <<"kEorImmediate", "PrintLogicalImmediate">>,
       <<"kMovz", "PrintMoveWideImmediate">>,
       <<"kUbfm", "PrintBitfield">>,
       <<"kExtr", "PrintExtract">>,
       <<"kBCond", "PrintConditionalBranch">>,
       <<"kSvc", "PrintExceptionGeneration">>,
       <<"kYield", "PrintSystem">>,
       <<"kRetabz", "PrintBranchRegister">>,
       <<"kBl", "PrintBranchImmediate">>,
       <<"kCbz", "PrintCompareAndBranch">>,
       <<"kTbz", "PrintTestAndBranch">>,
       <<"kStxr", "PrintLoadStoreExclusive">>,
       <<"kPrfmLiteral", "PrintLoadLiteral">>,
       <<"kStp", "PrintLoadStorePair">>,
       <<"kStur", "PrintLoadStore">>,
       <<"kUdiv", "PrintDataProcessingTwoSource">>,
       <<"kXpaci", "PrintDataProcessingOneSource">>,
       <<"kEonShiftedRegister", "PrintLogicalShiftedRegister">>,
       <<"kSubShiftedRegister", "PrintAddSubtractShiftedRegister">>,
       <<"kSubExtendedRegister", "PrintAddSubtractExtendedRegister">>,
       <<"kSbc", "PrintAddSubtractWithCarry">>,
       <<"kCcmp", "PrintConditionalCompare">>,
       <<"kCsneg", "PrintConditionalSelect">>,
       <<"kUmsubl", "PrintDataProcessingThreeSource">> >>

\* The boundaries greater than or equal to the opcode, by position.
AtOrAbove(opcode) ==
    { k \in 1..Len(Boundaries) : Ord[opcode] <= Ord[Boundaries[k][1]] }

FirstBoundary(opcode) ==
    CHOOSE k \in AtOrAbove(opcode) : \A j \in AtOrAbove(opcode) : k <= j

\* C17: printing an Instruction invokes exactly one family handler, that of the
\* first boundary of the ordered list that is greater than or equal to the
\* opcode; for an opcode greater than kUmsubl no handler runs and the output is
\* exactly `<unsupported_insn>`.
C17_Dispatch ==
    nprints > 0 =>
        IF AtOrAbove(insn.opcode) # {}
        THEN handlers = <<Boundaries[FirstBoundary(insn.opcode)][2]>>
        ELSE handlers = <<>> /\ text = "<unsupported_insn>"

\* C17 witness: the boundary opcode kUmsubl was printed by the handler of its own
\* boundary.
C17_Witness ==
    /\ insn.opcode = "kUmsubl"
    /\ handlers = <<"PrintDataProcessingThreeSource">>
    /\ status = "ok"
    /\ text # ""

option_ == Val(insn.operands[1].value)

\* The name of a barrier option: `sy` for 0b1111; a domain followed by ld or st
\* when the low two bits are 01 or 10; `#n` for the others.
BarrierName(option) ==
    IF option = 15 THEN "sy"
    ELSE IF option % 4 \in {1, 2}
    THEN (CASE option \div 4 = 0 -> "os"
            [] option \div 4 = 1 -> "nsh"
            [] option \div 4 = 2 -> "ish"
            [] option \div 4 = 3 -> "")
         \o (IF option % 4 = 1 THEN "ld" ELSE "st")
    ELSE "#" \o NatStr(option, 10)

BarrierPrinted == nprints > 0 /\ insn.opcode \in {"kDsb", "kDmb"} /\ insn \in BarrierInsns

\* C18: for dsb/dmb the option 0b1111 prints `sy`, an option whose low two bits
\* are 01 or 10 prints a domain (os, nsh, ish, or nothing for the full system)
\* followed by ld or st, and only the remaining options print the `#n` fallback.
C18_BarrierNames ==
    BarrierPrinted =>
        /\ status = "ok"
        /\ text = (IF insn.opcode = "kDsb" THEN "dsb " ELSE "dmb ") \o BarrierName(option_)

\* Each pointer-authentication opcode's own mnemonic and its z form.
PointerAuthMnemonic ==
    [kPacia |-> <<"pacia", "paciza">>, kPacib |-> <<"pacib", "pacizb">>,
     kPacda |-> <<"pacda", "pacdza">>, kPacdb |-> <<"pacdb", "pacdzb">>,
     kAutia |-> <<"autia", "autiza">>, kAutib |-> <<"autib", "autizb">>,
     kAutda |-> <<"autda", "autdza">>, kAutdb |-> <<"autdb", "autdzb">>]

PointerAuthPrinted ==
    nprints > 0 /\ status = "ok" /\ insn.opcode \in PointerAuthOpcodes

\* The text of the printed operands under another opcode, on the same sink.
TextAs(opcode) == Text(<<I([insn EXCEPT !.opcode = opcode])>>)

\* C19: each of the eight pointer-authentication one-source opcodes prints its
\* own mnemonic followed by `rd, rn` when rn is not XZR, and its z-form mnemonic
\* followed by rd alone when rn is XZR; no two of them print the same text for
\* the same operands.
C19_PointerAuth ==
    PointerAuthPrinted =>
        /\ text = IF rn_.name # kXzr
                  THEN Line(PointerAuthMnemonic[insn.opcode][1],
                            <<Text(<<O(rd_)>>), Text(<<O(rn_)>>)>>)
                  ELSE Line(PointerAuthMnemonic[insn.opcode][2], <<Text(<<O(rd_)>>)>>)
        /\ \A opcode \in PointerAuthOpcodes \ {insn.opcode} : TextAs(opcode) # text

\* Reading the numbers of a printed line back: the digits after each `#`, in the
\* base the sink was in.
Radix == IF fmt0 = "hex" THEN 16 ELSE 10

IsDigit(c) == \E d \in 0..(Radix - 1) : Digit(d) = c
DigitValue(c) == CHOOSE d \in 0..(Radix - 1) : Digit(d) = c

\* The number whose digits start at position k of t, after the digits read so far.
RECURSIVE NumberAt(_, _, _)
NumberAt(t, k, sofar) ==
    IF k <= Len(t) /\ IsDigit(SubSeq(t, k, k))
    THEN NumberAt(t, k + 1, sofar * Radix + DigitValue(SubSeq(t, k, k)))
    ELSE sofar

\* The numbers of t from position k on, in order.
RECURSIVE NumbersFrom(_, _)
NumbersFrom(t, k) ==
    IF k > Len(t) THEN <<>>
    ELSE IF SubSeq(t, k, k) = "#"
    THEN <<NumberAt(t, k + 1, 0)>> \o NumbersFrom(t, k + 1)
    ELSE NumbersFrom(t, k + 1)

Emitted == NumbersFrom(text, 1)
size_ == rd_.size

BitfieldPrinted ==
    /\ nprints > 0
    /\ status = "ok"
    /\ insn.opcode \in {"kBfm", "kSbfm", "kUbfm"}
    /\ Val(insn.operands[3].value) \in 0..(size_ - 1)
    /\ Val(insn.operands[4].value) \in 0..(size_ - 1)

\* C20: for a BFM, SBFM or UBFM with immr and imms in 0..size-1, every position
\* or shift amount printed is in 0..size-1, every width printed is in 1..size,
\* and where both are printed position + width <= size.
C20_FieldsInRange ==
    BitfieldPrinted =>
        /\ Len(Emitted) \in 0..2
        /\ Len(Emitted) >= 1 => Emitted[1] \in 0..(size_ - 1)
        /\ Len(Emitted) = 2 =>
               /\ Emitted[2] \in 1..size_
               /\ Emitted[1] + Emitted[2] <= size_

\* The positions of the character c in t.
PositionsOf(c, t) == { k \in 1..Len(t) : SubSeq(t, k, k) = c }

\* A load or store with a memory operand was printed.
MemoryOperandPrinted ==
    /\ nprints > 0
    /\ status = "ok"
    /\ insn.opcode \in {"kLdr", "kStr", "kLdrs"}
    /\ mem_.kind \in {"ImmediateOffset", "RegisterOffset"}

\* The text from the opening bracket on.
FromBracket ==
    LET k == CHOOSE j \in PositionsOf("[", text) : TRUE
    IN  SubSeq(text, k, Len(text))

\* C21: whatever writeback, post_index and the offset are, an ImmediateOffset or
\* RegisterOffset is printed with exactly one `[` and exactly one `]`; `!`
\* appears only directly after `]`, and only when writeback is true and
\* post_index is false; an ImmediateOffset whose offset value is 0 prints no
\* offset and no shift text.
C21_Brackets ==
    MemoryOperandPrinted =>
        /\ Cardinality(PositionsOf("[", text)) = 1
        /\ Cardinality(PositionsOf("]", text)) = 1
        /\ \A k \in PositionsOf("!", text) :
               /\ k > 1 /\ SubSeq(text, k - 1, k - 1) = "]"
               /\ mem_.writeback /\ ~mem_.post_index
        /\ (mem_.kind = "ImmediateOffset" /\ mem_.offset.value = {}) =>
               FromBracket \in {"[" \o BaseText \o "]", "[" \o BaseText \o "]!"}

\* C21 witness: a pre-indexed load whose offset is 0 and whose shift is lsl #2
\* was printed with the base alone, followed by `!`.
C21_Witness ==
    /\ insn.opcode = "kLdrs"
    /\ mem_.kind = "ImmediateOffset"
    /\ mem_.offset.value = {}
    /\ mem_.shift = Shift("kLsl", 2)
    /\ mem_.writeback /\ ~mem_.post_index
    /\ text = "ldrsw x1, [x0]!"

====
